---- MODULE Spec2Model ----
(***************************************************************************)
(* Model of the report workflow orchestrator (src/src/workflow.py,         *)
(* class ReportWorkflow) together with the parts of its collaborators      *)
(* that decide its control flow: TableauClient, InfoCentralClient,         *)
(* DEADWHClient, CubosOfiClient, JiraClient and Notifier.                  *)
(*                                                                         *)
(* Texts (messages, error texts) are sequences of tokens, so that          *)
(* f-strings and joins are concatenations and "contains" is decidable.     *)
(* A call either returns a value or raises: Ret(v) / Raise(e).             *)
(***************************************************************************)
EXTENDS Integers, Sequences, FiniteSets, TLC

VARIABLES
    pc,          \* position of the orchestrator: "idle", a step label, "done"
    flow,        \* which run method is executing: "none", "full", "send", "validate"
    steps,       \* self.steps
    ticket_jira, \* self.ticket_jira
    observed,    \* results passed to self.on_step_complete during this run
    lastStep,    \* operation outcome and output of the last _execute_step call
    issues,      \* number of issues that exist in the tracker
    jiraCalls,   \* calls of JiraClient.crear_ticket_error during this run
    alerts,      \* calls of Notifier.enviar_alerta_error during this run
    escalations, \* invocations of _handle_error during this run
    summaries,   \* calls of Notifier.enviar_resumen_proceso during this run
    jobLog,      \* calls of SQLClient.execute_job during this run
    tableau,     \* the TableauClient of the current with-block and its sign-in/out counts
    ret,         \* value returned by the run to its caller
    raised,      \* exception that left the run towards its caller
    refresh,     \* one call of TableauClient.refresh_extracto, step by step
    cli,         \* one process of run_workflow.py: position, arguments, exit code
    files,       \* the staging directory and the destination directory
    fileLog,     \* descargar_pdf calls of this run and the directories as its steps found them
    select,      \* one evaluation of the report table of descargar_todos_reportes
    extracto,    \* one call of TableauClient.validar_extracto: what it found and returned
    jobCall      \* one call of SQLClient.execute_job, step by step

workflowVars ==
    <<pc, flow, steps, ticket_jira, observed, lastStep, issues,
      jiraCalls, alerts, escalations, summaries, jobLog, tableau, ret, raised>>

fileVars == <<files, fileLog>>

callVars == <<select, extracto, jobCall>>

vars == <<workflowVars, refresh, cli, fileVars, callVars>>

\* ---------------------------------------------------------------- bounds
MaxIssues == 2
MaxAcciones == 2
\* largest max_wait_seconds given to refresh_extracto
MaxWaitSeconds == 25
\* the dates of a render: weekdays 0..MaxWeekday, days of month 1..MaxDay
MaxWeekday == 1
MaxDay == 2
\* datasources listed by the report server
MaxDatasources == 2
\* largest max_wait given to execute_job
MaxJobWait == 25

\* ---------------------------------------------------------------- values
NoTicket == "None"
NoRet == [none |-> TRUE]
NoExc == <<>>
EmptyDict == [k \in {} |-> TRUE]
NoStep == [none |-> TRUE]

Ret(v) == [exc |-> FALSE, val |-> v, err |-> <<>>]
Raise(e) == [exc |-> TRUE, val |-> <<>>, err |-> e]

ObserverError == <<"observer failed">>
NotConnectedError == <<"No conectado a Tableau Server">>

ObserverOutcomes == {"ok", "raise"}
ConnectOutcomes == {"ok", "fail"}
ValidarOutcomes == {"valid", "stale", "notfound", "error"}
RefreshOutcomes == {"ok", "failed", "cancelled", "timeout", "notfound", "error", "find_error"}
InventarioOutcomes == {"nodiff", "diff", "error"}
JobOutcomes == {"completed", "timeout", "error"}
RenderOutcomes == {"ok", "doc_fail", "fs_error"}
CopyOutcomes == {"ok", "no_dest", "perm", "error"}
SendOutcomes == {"ok", "error"}
DocOutcomes == {"ok", "small", "not_found"}
MkdirOutcomes == {"ok", "error"}
ErrorKinds == {"perm", "os"}
TicketOutcomes == {"created", "config_invalid", "error"}
MailOutcomes == {"sent", "error"}

\* Rows of the reconciliation output: each job reference may be empty.
Acciones == [Accion1 : {"", "JobA"}, Accion2 : {"", "JobB"}]

RECURSIVE SeqsUpTo(_, _)
SeqsUpTo(S, n) ==
    IF n = 0 THEN {<<>>}
    ELSE LET shorter == SeqsUpTo(S, n - 1)
         IN shorter \cup {Append(s, x) : s \in shorter, x \in S}

Last(s) == s[Len(s)]

\* text contains the tokens of part as a contiguous run
ContainsText(text, part) ==
    \E i \in 0..(Len(text) - Len(part)) :
        \A j \in 1..Len(part) : text[i + j] = part[j]

\* sep.join(parts)
RECURSIVE Join(_, _)
Join(parts, sep) ==
    IF parts = <<>> THEN <<>>
    ELSE IF Len(parts) = 1 THEN parts[1]
    ELSE parts[1] \o <<sep>> \o Join(Tail(parts), sep)

\* before a call of the method: nothing selected, found or returned yet
NoSelect == [pc |-> "idle", today |-> [weekday |-> 0, day |-> 1], selected |-> <<>>]
NoExtracto ==
    [pc |-> "idle", connected |-> FALSE, datasources |-> <<>>, now_utc |-> 0,
     max_age_hours |-> 0, max_extract_age_hours |-> 0, out |-> NoRet]
NoJob ==
    [pc |-> "idle", wait_for_completion |-> TRUE, max_wait |-> 0, total_waited |-> 0,
     polls |-> <<>>, out |-> NoRet]

\* ------------------------------------------------------------ StepResult
StepResult(nombre, success, mensaje, detalles) ==
    [nombre |-> nombre, success |-> success, mensaje |-> mensaje, detalles |-> detalles]

to_dict(s) ==
    [nombre |-> s.nombre, success |-> s.success, estado |-> s.mensaje,
     detalles |-> s.detalles]

RECURSIVE MapToDict(_)
MapToDict(ss) ==
    IF ss = <<>> THEN <<>> ELSE <<to_dict(Head(ss))>> \o MapToDict(Tail(ss))

\* sum(1 for s in self.steps if s.success), ... if not s.success
RECURSIVE Exitosos(_)
Exitosos(ss) ==
    IF ss = <<>> THEN 0
    ELSE (IF Head(ss).success THEN 1 ELSE 0) + Exitosos(Tail(ss))

RECURSIVE Fallidos(_)
Fallidos(ss) ==
    IF ss = <<>> THEN 0
    ELSE (IF ~Head(ss).success THEN 1 ELSE 0) + Fallidos(Tail(ss))

\* a variant of get_summary that counts the failed steps as steps without
\* details
get_summary_SinDetalles(ss, tj) ==
    [total_pasos |-> Len(ss),
     pasos_exitosos |-> Exitosos(ss),
     pasos_fallidos |-> Cardinality({i \in 1..Len(ss) : ss[i].detalles = EmptyDict}),
     ticket_jira |-> tj,
     pasos |-> MapToDict(ss)]

\* ReportWorkflow.get_summary, without the elapsed time
get_summary(ss, tj) ==
    [total_pasos |-> Len(ss),
     pasos_exitosos |-> Exitosos(ss),
     pasos_fallidos |-> Fallidos(ss),
     ticket_jira |-> tj,
     pasos |-> MapToDict(ss)]

\* ------------------------------------------------------------ JiraClient
\* crear_ticket_error: every failure is returned, none is raised.
crear_ticket_error_Raises(titulo, descripcion, tk, n) ==
    IF tk = "config_invalid"
    THEN Ret(<<FALSE, <<"Configuracion de Jira incompleta">>, NoTicket>>)
    ELSE IF tk = "error"
    THEN Raise(<<"jira error">>)
    ELSE LET issue_key == "DDF-" \o ToString(n + 1)
         IN Ret(<<TRUE, <<"Ticket creado: ", issue_key>>, issue_key>>)

crear_ticket_error(titulo, descripcion, tk, n) ==
    IF tk = "config_invalid"
    THEN Ret(<<FALSE, <<"Configuracion de Jira incompleta">>, NoTicket>>)
    ELSE IF tk = "error"
    THEN Ret(<<FALSE, <<"Error creando ticket en Jira: ", "jira error">>, NoTicket>>)
    ELSE LET issue_key == "DDF-" \o ToString(n + 1)
         IN Ret(<<TRUE, <<"Ticket creado: ", issue_key>>, issue_key>>)

\* -------------------------------------------------------------- Notifier
_send_via_dbmail_Raises(ml) ==
    IF ml = "sent" THEN Ret(<<TRUE, <<"Email enviado exitosamente">>>>)
    ELSE Raise(<<"mail error">>)

_send_via_dbmail(ml) ==
    IF ml = "sent" THEN Ret(<<TRUE, <<"Email enviado exitosamente">>>>)
    ELSE Ret(<<FALSE, <<"mail error">>>>)

\* The mail that enviar_alerta_error composes: the ticket link is present
\* only for a truthy ticket_jira.
AlertaBody(titulo, mensaje, tj) ==
    [titulo |-> titulo, mensaje |-> mensaje,
     ticket |-> IF tj # NoTicket /\ tj # "" THEN tj ELSE NoTicket]

enviar_alerta_error(titulo, mensaje, tj, ml) == _send_via_dbmail(ml)

enviar_resumen_proceso_Raises(exito, pasos_ejecutados, ml) ==
    IF ml = "sent" THEN Ret(<<TRUE, <<"Email enviado exitosamente">>>>)
    ELSE Raise(<<"mail error">>)

enviar_resumen_proceso(exito, pasos_ejecutados, ml) == _send_via_dbmail(ml)

\* --------------------------------------------------------- TableauClient
NewTableau(t) == [t EXCEPT !.connected = FALSE]

connect(t, co) ==
    IF co = "ok"
    THEN [t EXCEPT !.connected = TRUE, !.signIns = @ + 1]
    ELSE [t EXCEPT !.connected = FALSE]

\* a variant of __exit__ that leaves the session open
disconnect_Olvida(t) == t

\* a variant of disconnect that signs out of a session that never connected
disconnect_Siempre(t) == [t EXCEPT !.connected = FALSE, !.signOuts = @ + 1]

disconnect(t) ==
    IF t.connected
    THEN [t EXCEPT !.connected = FALSE, !.signOuts = @ + 1]
    ELSE t

\* __enter__: a new client, then connect(); the result of connect() is ignored
Enter(t, co) == connect(NewTableau(t), co)

\* validar_extracto: find_datasource raises when not connected or when the
\* server call fails; otherwise a (is_valid, message, last_updated) triple.
validar_extracto(t, o) ==
    IF ~t.connected THEN Raise(NotConnectedError)
    ELSE IF o = "error" THEN Raise(<<"tableau error">>)
    ELSE IF o = "notfound" THEN Ret(<<FALSE, <<"Datasource no encontrado">>, "None">>)
    ELSE IF o = "stale" THEN Ret(<<FALSE, <<"Extracto desactualizado">>, "updated_at">>)
    ELSE Ret(<<TRUE, <<"Extracto valido">>, "updated_at">>)

TimeoutMsg(max_wait_seconds) ==
    <<"Timeout despues de ", ToString(max_wait_seconds), "s">>

\* refresh_extracto: find_datasource is called outside the try block, the
\* refresh and its polling inside it.
refresh_extracto(t, o) ==
    IF ~t.connected THEN Raise(NotConnectedError)
    ELSE IF o = "find_error" THEN Raise(<<"tableau error">>)
    ELSE IF o = "notfound" THEN Ret(<<FALSE, <<"Datasource no encontrado">>>>)
    ELSE IF o = "ok" THEN Ret(<<TRUE, <<"Refresh completado">>>>)
    ELSE IF o = "failed" THEN Ret(<<FALSE, <<"Refresh fallo: ", "notes">>>>)
    ELSE IF o = "cancelled" THEN Ret(<<FALSE, <<"Refresh cancelado">>>>)
    ELSE IF o = "timeout" THEN Ret(<<FALSE, TimeoutMsg(300)>>)
    ELSE Ret(<<FALSE, <<"refresh error">>>>)

\* The body of refresh_extracto step by step.  rf is the call's state:
\* pc, the client's connection, max_wait_seconds, total_waited, the polls
\* made so far and the outcome out (NoRet while the call is running).
wait_interval == 10

\* job.finish_code: 0 success, 1 failed, 2 cancelled, -1 while the job runs
FinishCodes == {-1, 0, 1, 2}

\* what one jobs.get_by_id call does: it returns a job or raises
PollOutcomes ==
    {[raised |-> FALSE, finish_code |-> c] : c \in FinishCodes}
        \cup {[raised |-> TRUE, finish_code |-> -1]}

NoCall ==
    [pc |-> "idle", connected |-> FALSE, max_wait_seconds |-> 0, total_waited |-> 0,
     polls |-> <<>>, out |-> NoRet]

Returns(rf, out) == [rf EXCEPT !.pc = "returned", !.out = out]

\* ds = self.find_datasource(ds_name); if not ds: return (False, ...)
refresh_find(connected, max_wait_seconds, o) ==
    LET rf == [NoCall EXCEPT !.connected = connected,
                             !.max_wait_seconds = max_wait_seconds]
        t == [connected |-> connected]
    IN IF ~connected \/ o = "find_error"
       THEN [rf EXCEPT !.pc = "raised", !.out = refresh_extracto(t, "find_error")]
       ELSE IF o = "notfound" THEN Returns(rf, refresh_extracto(t, "notfound"))
       ELSE [rf EXCEPT !.pc = "start"]

\* job = self.server.datasources.refresh(ds); total_waited = 0
refresh_start(rf, o) ==
    IF o = "error" THEN Returns(rf, refresh_extracto(rf, "error"))
    ELSE [rf EXCEPT !.pc = "loop", !.total_waited = 0]

\* while total_waited < max_wait_seconds:
WhileWaiting_Inclusive(rf) == rf.total_waited <= rf.max_wait_seconds

WhileWaiting(rf) == rf.total_waited < rf.max_wait_seconds

\* one iteration: sleep, total_waited += wait_interval, get_by_id, the tests
\* of finish_code
refresh_poll(rf, p) ==
    LET r1 == [rf EXCEPT !.total_waited = @ + wait_interval,
                         !.polls = Append(@, p)]
    IN IF p.raised THEN Returns(r1, refresh_extracto(rf, "error"))
       ELSE IF p.finish_code = 0 THEN Returns(r1, refresh_extracto(rf, "ok"))
       ELSE IF p.finish_code = 1 THEN Returns(r1, refresh_extracto(rf, "failed"))
       ELSE IF p.finish_code = 2 THEN Returns(r1, refresh_extracto(rf, "cancelled"))
       ELSE r1

\* return (False, f"Timeout despues de {max_wait_seconds}s")
refresh_timeout(rf) == Returns(rf, Ret(<<FALSE, TimeoutMsg(rf.max_wait_seconds)>>))

\* descargar_todos_reportes: descargar_pdf raises when not connected;
\* document failures are collected and returned.
descargar_todos_reportes(t, o) ==
    IF ~t.connected THEN Raise(NotConnectedError)
    ELSE IF o = "doc_fail"
    THEN Ret(<<FALSE, <<"Errores en ", "1", " reportes: ", "doc", ": ", "pdf error">>,
               <<"some.pdf">>>>)
    ELSE Ret(<<TRUE, <<"5", " reportes descargados">>, <<"all.pdf">>>>)

\* -------------------------------------- TableauClient, age of the extract
\* age.total_seconds() / 3600
SecondsPerHour == 3600

\* a datasource as the server lists it: how its name compares with the
\* name searched ("exact", "partial" or "none"), has_extracts, updated_at;
\* a time is [t |-> seconds], no time is NoTime
NoTime == [none |-> TRUE]
NoDatasource == [none |-> TRUE]

\* the first datasource of the list whose name matches in one of the given
\* ways and that has an extract, or NoDatasource
FirstThat(dss, matches) ==
    LET hits == {i \in 1..Len(dss) : dss[i].match \in matches /\ dss[i].has_extracts}
    IN IF hits = {} THEN NoDatasource
       ELSE dss[CHOOSE i \in hits : \A j \in hits : i <= j]

\* find_datasource: the exact search, then the partial one; both skip the
\* datasources without extract
find_datasource(connected, dss) ==
    IF ~connected THEN Raise(NotConnectedError)
    ELSE LET exact == FirstThat(dss, {"exact"})
             partial == FirstThat(dss, {"exact", "partial"})
         IN IF exact # NoDatasource THEN Ret(exact) ELSE Ret(partial)

\* f"{age_hours:.2f}" for an age given in seconds (no input of the model
\* lies halfway between two hundredths)
Fmt2f(seconds) ==
    LET a == IF seconds < 0 THEN 0 - seconds ELSE seconds
        hundredths == (a * 100 + SecondsPerHour \div 2) \div SecondsPerHour
        whole == hundredths \div 100
        frac == hundredths % 100
    IN (IF seconds < 0 THEN "-" ELSE "") \o ToString(whole) \o "."
           \o (IF frac < 10 THEN "0" ELSE "") \o ToString(frac)

\* max_age_hours or config.validation.max_extract_age_hours: an argument
\* that is None or 0 gives way to the configured value
max_hours(max_age_hours, max_extract_age_hours) ==
    IF max_age_hours # 0 THEN max_age_hours ELSE max_extract_age_hours

\* a variant that calls an extract of exactly the maximum age stale
validar_extracto_Estricto(connected, dss, now_utc, max_age_hours, max_extract_age_hours) ==
    LET f == find_datasource(connected, dss)
        ds == f.val
        mx == max_hours(max_age_hours, max_extract_age_hours)
    IN IF f.exc THEN f
       ELSE IF ds = NoDatasource
       THEN Ret(<<FALSE, <<"Datasource '", "ds_name", "' no encontrado">>, NoTime>>)
       ELSE IF ~ds.has_extracts
       THEN Ret(<<FALSE, <<"Datasource '", "ds_name", "' no tiene extracto">>, NoTime>>)
       ELSE IF ds.updated_at = NoTime
       THEN Ret(<<FALSE, <<"No se pudo obtener fecha de actualización">>, NoTime>>)
       ELSE LET age == now_utc - ds.updated_at.t
            IN IF age >= mx * SecondsPerHour
               THEN Ret(<<FALSE,
                          <<"Extracto desactualizado: ", Fmt2f(age), "h (máximo: ",
                            ToString(mx), ".0", "h)">>,
                          ds.updated_at>>)
               ELSE Ret(<<TRUE, <<"Extracto válido: ", Fmt2f(age), "h">>, ds.updated_at>>)

\* validar_extracto() with the times in seconds: age_hours > max_hours is
\* age > max_hours * 3600
validar_extracto_edad(connected, dss, now_utc, max_age_hours, max_extract_age_hours) ==
    LET f == find_datasource(connected, dss)
        ds == f.val
        mx == max_hours(max_age_hours, max_extract_age_hours)
    IN IF f.exc THEN f
       ELSE IF ds = NoDatasource
       THEN Ret(<<FALSE, <<"Datasource '", "ds_name", "' no encontrado">>, NoTime>>)
       ELSE IF ~ds.has_extracts
       THEN Ret(<<FALSE, <<"Datasource '", "ds_name", "' no tiene extracto">>, NoTime>>)
       ELSE IF ds.updated_at = NoTime
       THEN Ret(<<FALSE, <<"No se pudo obtener fecha de actualización">>, NoTime>>)
       ELSE LET age == now_utc - ds.updated_at.t
            IN IF age > mx * SecondsPerHour
               THEN Ret(<<FALSE,
                          <<"Extracto desactualizado: ", Fmt2f(age), "h (máximo: ",
                            ToString(mx), ".0", "h)">>,
                          ds.updated_at>>)
               ELSE Ret(<<TRUE, <<"Extracto válido: ", Fmt2f(age), "h">>, ds.updated_at>>)

\* ----------------------------------------------------------- directories
\* A directory: whether it exists, its plain files (name and content) and
\* its subdirectories (name and the plain files inside).
NoDir == [exists |-> FALSE, files |-> {}, dirs |-> {}]
EmptyDir == [exists |-> TRUE, files |-> {}, dirs |-> {}]

File(name, content) == [name |-> name, content |-> content]
SubDir(name, inside) == [name |-> name, inside |-> inside]

Names(entries) == {e.name : e \in entries}

\* os.listdir: the names of the entries (in the model the set of names; a
\* list built from it follows one fixed order)
listdir(d) == Names(d.files) \cup Names(d.dirs)

RECURSIVE SetToSeq(_)
SetToSeq(S) ==
    IF S = {} THEN <<>>
    ELSE LET x == CHOOSE y \in S : TRUE
         IN <<x>> \o SetToSeq(S \ {x})

\* writing a plain file creates it or replaces the one of that name
WriteFile(d, f) ==
    [d EXCEPT !.exists = TRUE,
              !.files = {g \in @ : g.name # f.name} \cup {f}]

\* shutil.copy2(src, dst): when dst names a directory the file is copied
\* into that directory under its own name
copy2(d, f) ==
    IF f.name \in Names(d.dirs)
    THEN [d EXCEPT !.dirs =
             {IF sd.name = f.name
              THEN SubDir(sd.name, {g \in sd.inside : g.name # f.name} \cup {f})
              ELSE sd : sd \in @}]
    ELSE WriteFile(d, f)

RECURSIVE CopyAll(_, _)
CopyAll(d, fs) ==
    IF fs = {} THEN d
    ELSE LET f == CHOOSE g \in fs : TRUE
         IN CopyAll(copy2(d, f), fs \ {f})

\* ---------------------------------------------- TableauClient, documents
\* the table of descargar_todos_reportes; condition names the test on
\* datetime.today() that the row carries
reportes ==
    <<[name |-> "Reporte Costo Puesto en Patios",
       alias |-> "Reporte Costo Puesto en Patios",
       orientation |-> "Portrait", condition |-> "weekday != 0"],
      [name |-> "Reporte Costo Puesto en Patios (Inicio Semana)",
       alias |-> "Reporte Costo Puesto en Patios",
       orientation |-> "Portrait", condition |-> "weekday == 0"],
      [name |-> "Reporte Inventario Diario",
       alias |-> "Reporte Inventario Diario",
       orientation |-> "Portrait", condition |-> "True"],
      [name |-> "Reporte Compra Chatarra Prom Dia Habil",
       alias |-> "Reporte Compra Chatarra Prom Dia Habil",
       orientation |-> "Landscape", condition |-> "day != 1"],
      [name |-> "Reporte Compra Chatarra Prom Dia Habil Dia Primero",
       alias |-> "Reporte Compra Chatarra Prom Dia Habil",
       orientation |-> "Landscape", condition |-> "day == 1"],
      [name |-> "Reporte de Compras e Inventario por Tipo de Material",
       alias |-> "Reporte de Compras e Inventario por Tipo de Material",
       orientation |-> "Portrait", condition |-> "True"],
      [name |-> "Reporte NUEVO Patios - Compras Nacionales + Importaciones",
       alias |-> "Reporte NUEVO Patios - Compras Nacionales + Importaciones",
       orientation |-> "Portrait", condition |-> "weekday != 0"],
      [name |-> "Reporte NUEVO Patios - Compras Nacionales + Importaciones_InicioSem",
       alias |-> "Reporte NUEVO Patios - Compras Nacionales + Importaciones",
       orientation |-> "Portrait", condition |-> "weekday == 0"]>>

\* a variant whose first-of-month row is never selected
condition_SinPrimero(reporte, today) ==
    IF reporte.condition = "weekday != 0" THEN today.weekday # 0
    ELSE IF reporte.condition = "weekday == 0" THEN today.weekday = 0
    ELSE IF reporte.condition = "day != 1" THEN today.day # 1
    ELSE IF reporte.condition = "day == 1" THEN FALSE
    ELSE TRUE

\* today = [weekday, day]: Monday is weekday 0
condition(reporte, today) ==
    IF reporte.condition = "weekday != 0" THEN today.weekday # 0
    ELSE IF reporte.condition = "weekday == 0" THEN today.weekday = 0
    ELSE IF reporte.condition = "day != 1" THEN today.day # 1
    ELSE IF reporte.condition = "day == 1" THEN today.day = 1
    ELSE TRUE

\* the rows the loop does not skip, in the order of the table
SelectedRows(today) == SelectSeq(reportes, LAMBDA row : condition(row, today))

\* f"{reporte['alias']}.pdf"
PdfName(alias) == <<alias, ".pdf">>

\* descargar_pdf into directory d: raises when not connected; the workbook
\* lookup and the download may fail before anything is written; a document
\* smaller than 1000 bytes is reported as a failure after it was written.
descargar_pdf(t, d, workbook_name, alias, o) ==
    IF ~t.connected THEN [r |-> Raise(NotConnectedError), dir |-> d]
    ELSE IF o = "not_found"
    THEN [r |-> Ret(<<FALSE, <<"Workbook '", workbook_name, "' no encontrado">>>>),
          dir |-> d]
    ELSE IF o = "error"
    THEN [r |-> Ret(<<FALSE, <<"tableau error">>>>), dir |-> d]
    ELSE IF PdfName(alias) \in Names(d.dirs)
    THEN [r |-> Ret(<<FALSE, <<"os error">>>>), dir |-> d]
    ELSE IF o = "small"
    THEN [r |-> Ret(<<FALSE, <<"PDF generado muy pequeño: ", "size", " bytes">>>>),
          dir |-> WriteFile(d, File(PdfName(alias), <<workbook_name, "small">>))]
    ELSE [r |-> Ret(<<TRUE, <<"pdf_source", alias, ".pdf">>>>),
          dir |-> WriteFile(d, File(PdfName(alias), <<workbook_name, "pdf">>))]

\* the loop of descargar_todos_reportes from row i on; outs[k] is what
\* happens to the k-th call of descargar_pdf; a is the state of the loop:
\* the directory, downloaded_files, errors and the calls made so far with
\* their outcomes
RECURSIVE TodosLoop_Stop(_, _, _, _, _)
TodosLoop_Stop(t, today, outs, i, a) ==
    IF i > Len(reportes) \/ a.exc \/ a.errors # <<>> THEN a
    ELSE IF ~condition(reportes[i], today)
    THEN TodosLoop_Stop(t, today, outs, i + 1, a)
    ELSE LET reporte == reportes[i]
             x == descargar_pdf(t, a.dir, reporte.name, reporte.alias,
                                outs[Len(a.calls) + 1])
             calls == Append(a.calls, [name |-> reporte.name, alias |-> reporte.alias,
                                      r |-> x.r])
         IN TodosLoop_Stop(t, today, outs, i + 1,
                IF x.r.exc
                THEN [a EXCEPT !.exc = TRUE, !.err = x.r.err, !.calls = calls]
                ELSE IF x.r.val[1]
                THEN [a EXCEPT !.dir = x.dir, !.calls = calls,
                               !.downloaded_files = Append(@, x.r.val[2])]
                ELSE [a EXCEPT !.dir = x.dir, !.calls = calls,
                               !.errors = Append(@, <<reporte.name, ": ">> \o x.r.val[2])])

RECURSIVE TodosLoop(_, _, _, _, _)
TodosLoop(t, today, outs, i, a) ==
    IF i > Len(reportes) \/ a.exc THEN a
    ELSE IF ~condition(reportes[i], today)
    THEN TodosLoop(t, today, outs, i + 1, a)
    ELSE LET reporte == reportes[i]
             x == descargar_pdf(t, a.dir, reporte.name, reporte.alias,
                                outs[Len(a.calls) + 1])
             calls == Append(a.calls, [name |-> reporte.name, alias |-> reporte.alias,
                                      r |-> x.r])
         IN TodosLoop(t, today, outs, i + 1,
                IF x.r.exc
                THEN [a EXCEPT !.exc = TRUE, !.err = x.r.err, !.calls = calls]
                ELSE IF x.r.val[1]
                THEN [a EXCEPT !.dir = x.dir, !.calls = calls,
                               !.downloaded_files = Append(@, x.r.val[2])]
                ELSE [a EXCEPT !.dir = x.dir, !.calls = calls,
                               !.errors = Append(@, <<reporte.name, ": ">> \o x.r.val[2])])

\* descargar_todos_reportes(output_dir) with the directory's content: the
\* outcome, the directory afterwards and the calls of descargar_pdf
TodosResult(a) ==
    [r |-> IF a.exc THEN Raise(a.err)
           ELSE IF a.errors # <<>>
           THEN Ret(<<FALSE,
                      <<"Errores en ", ToString(Len(a.errors)), " reportes: ">>
                          \o Join(a.errors, "; "),
                      a.downloaded_files>>)
           ELSE Ret(<<TRUE,
                      <<ToString(Len(a.downloaded_files)), " reportes descargados">>,
                      a.downloaded_files>>),
     dir |-> a.dir,
     calls |-> a.calls]

LoopStart(d) ==
    [dir |-> d, downloaded_files |-> <<>>, errors |-> <<>>, calls |-> <<>>,
     exc |-> FALSE, err |-> <<>>]

descargar_todos_reportes_StopAtFirst(t, d, today, outs) ==
    TodosResult(TodosLoop_Stop(t, today, outs, 1, LoopStart(d)))

descargar_todos_reportes_fs(t, d, today, outs) ==
    TodosResult(TodosLoop(t, today, outs, 1, LoopStart(d)))

\* ------------------------------------------------------------- SQLClient
\* execute_job: every error is caught and returned.
execute_job(job_name, o) ==
    IF o = "completed" THEN <<TRUE, <<"Job completado exitosamente">>>>
    ELSE IF o = "timeout" THEN <<FALSE, <<"Timeout esperando job despues de ", "600", "s">>>>
    ELSE <<FALSE, <<"job error">>>>

\* execute_job step by step.  check_interval is the default of the
\* parameter, which no caller overrides.
check_interval == 10

\* what one status query gives: the status of the latest run of the job,
\* a row without a known status, no row, or an error
JobPolls == {"Completed", "Running", "Unknown", "empty", "error"}

JobReturns(j, out) == [j EXCEPT !.pc = "returned", !.out = out]

\* sp_start_job; if not wait_for_completion: return; total_waited = 0
job_start(wait_for_completion, max_wait, o) ==
    LET j == [NoJob EXCEPT !.wait_for_completion = wait_for_completion,
                           !.max_wait = max_wait]
    IN IF o = "error" THEN JobReturns(j, Ret(<<FALSE, <<"sql error">>>>))
       ELSE IF ~wait_for_completion
       THEN JobReturns(j, Ret(<<TRUE, <<"Job iniciado (sin esperar)">>>>))
       ELSE [j EXCEPT !.pc = "loop", !.total_waited = 0]

\* while total_waited < max_wait:
JobWaiting_Inclusive(j) == j.total_waited <= j.max_wait

JobWaiting(j) == j.total_waited < j.max_wait

\* one iteration: sleep, total_waited += check_interval, the status query
job_poll(j, p) ==
    LET j1 == [j EXCEPT !.total_waited = @ + check_interval,
                        !.polls = Append(@, p)]
    IN IF p = "error" THEN JobReturns(j1, Ret(<<FALSE, <<"sql error">>>>))
       ELSE IF p = "Completed"
       THEN JobReturns(j1, Ret(<<TRUE, <<"Job completado exitosamente">>>>))
       ELSE j1

\* return (False, f"Timeout esperando job despues de {max_wait}s")
job_timeout(j) ==
    JobReturns(j, Ret(<<FALSE, <<"Timeout esperando job despues de ",
                                 ToString(j.max_wait), "s">>>>))

\* InfoCentralClient.validar_inventario: (hay_diferencias, mensaje, acciones),
\* errors are re-raised.
validar_inventario(o, acciones) ==
    IF o = "error" THEN Raise(<<"sql error">>)
    ELSE IF o = "nodiff" THEN Ret(<<FALSE, <<"No hay diferencias contra el origen">>, <<>>>>)
    ELSE Ret(<<TRUE, <<"Hay diferencias contra el origen">>, acciones>>)

InventarioResults ==
    {validar_inventario(o, acc) :
        o \in InventarioOutcomes, acc \in SeqsUpTo(Acciones, MaxAcciones)}

\* DEADWHClient.enviar_reportes: errors are returned.
enviar_reportes(o) ==
    IF o = "ok" THEN Ret(<<TRUE, <<"Reportes enviados exitosamente">>>>)
    ELSE Ret(<<FALSE, <<"sql error">>>>)

ejecutar_job_inventario(o) == execute_job("BI Inventario Chatarra 5:15 am", o)

\* ------------------------------------------------ ReportWorkflow helpers
\* _wrap_validacion: the details carry the timestamps only when
\* last_updated is present.  The argument is evaluated inside the step's
\* lambda, so an error of validar_extracto passes through.
_wrap_validacion(r) ==
    IF r.exc THEN r
    ELSE LET last_updated == r.val[3]
         IN Ret(<<r.val[1], r.val[2],
                  IF last_updated # "None"
                  THEN [last_updated_utc |-> last_updated,
                        last_updated_local |-> "local",
                        timezone |-> "America/Monterrey (UTC-6)"]
                  ELSE EmptyDict>>)

\* lambda: (*call(), {})
WithEmptyDetails(r) ==
    IF r.exc THEN r ELSE Ret(<<r.val[1], r.val[2], EmptyDict>>)

_validar_inventario(r) ==
    IF r.exc THEN r
    ELSE LET hay_diferencias == r.val[1]
             mensaje == r.val[2]
             acciones == r.val[3]
         IN IF ~hay_diferencias THEN Ret(<<TRUE, mensaje, EmptyDict>>)
            ELSE Ret(<<FALSE, mensaje,
                       [hay_diferencias |-> TRUE, acciones |-> acciones]>>)

\* number of job executions the loop of _ejecutar_jobs_correctivos performs
RECURSIVE NumJobs(_)
NumJobs(acciones) ==
    IF acciones = <<>> THEN 0
    ELSE (IF Head(acciones).Accion1 # "" THEN 1 ELSE 0)
         + (IF Head(acciones).Accion2 # "" THEN 1 ELSE 0)
         + NumJobs(Tail(acciones))

JobCall(job, r) == [job |-> job, success |-> r[1], msg |-> r[2]]

\* the for-loop of _ejecutar_jobs_correctivos; oracle[k] is the outcome of
\* the k-th execute_job call
RECURSIVE JobsLoop(_, _, _, _)
JobsLoop(acciones, oracle, errores, log) ==
    IF acciones = <<>> THEN [errores |-> errores, log |-> log]
    ELSE LET accion == Head(acciones)
             accion1 == accion.Accion1
             accion2 == accion.Accion2
             r1 == execute_job(accion1, oracle[Len(log) + 1])
             e1 == IF accion1 # "" /\ ~r1[1]
                   THEN Append(errores, <<accion1, ": ">> \o r1[2]) ELSE errores
             l1 == IF accion1 # "" THEN Append(log, JobCall(accion1, r1)) ELSE log
             r2 == execute_job(accion2, oracle[Len(l1) + 1])
             e2 == IF accion2 # "" /\ ~r2[1]
                   THEN Append(e1, <<accion2, ": ">> \o r2[2]) ELSE e1
             l2 == IF accion2 # "" THEN Append(l1, JobCall(accion2, r2)) ELSE l1
         IN JobsLoop(Tail(acciones), oracle, e2, l2)

\* the loop of a variant that gives up at the first failed job
RECURSIVE JobsLoopStop(_, _, _, _)
JobsLoopStop(acciones, oracle, errores, log) ==
    IF acciones = <<>> \/ errores # <<>> THEN [errores |-> errores, log |-> log]
    ELSE LET accion == Head(acciones)
             accion1 == accion.Accion1
             accion2 == accion.Accion2
             r1 == execute_job(accion1, oracle[Len(log) + 1])
             e1 == IF accion1 # "" /\ ~r1[1]
                   THEN Append(errores, <<accion1, ": ">> \o r1[2]) ELSE errores
             l1 == IF accion1 # "" THEN Append(log, JobCall(accion1, r1)) ELSE log
             r2 == execute_job(accion2, oracle[Len(l1) + 1])
             run2 == accion2 # "" /\ e1 = <<>>
             e2 == IF run2 /\ ~r2[1]
                   THEN Append(e1, <<accion2, ": ">> \o r2[2]) ELSE e1
             l2 == IF run2 THEN Append(l1, JobCall(accion2, r2)) ELSE l1
         IN JobsLoopStop(Tail(acciones), oracle, e2, l2)

\* a variant that reports success without looking at the collected errors
JobsResult_Optimista(acciones, loop) ==
    [exc |-> FALSE, err |-> <<>>, log |-> loop.log,
     val |-> <<TRUE, <<ToString(Len(acciones)), " ubicaciones corregidas">>, EmptyDict>>]

JobsResult(acciones, loop) ==
    [exc |-> FALSE, err |-> <<>>, log |-> loop.log,
     val |-> IF loop.errores # <<>>
             THEN <<FALSE, <<"Errores en jobs: ">> \o Join(loop.errores, "; "), EmptyDict>>
             ELSE <<TRUE, <<ToString(Len(acciones)), " ubicaciones corregidas">>, EmptyDict>>]

\* a variant that walks the action list from its end
RECURSIVE Reverse(_)
Reverse(seq) ==
    IF seq = <<>> THEN <<>> ELSE Append(Reverse(Tail(seq)), Head(seq))

_ejecutar_jobs_correctivos_Reordena(acciones, oracle) ==
    JobsResult(acciones, JobsLoop(Reverse(acciones), oracle, <<>>, <<>>))

_ejecutar_jobs_correctivos_Stop(acciones, oracle) ==
    JobsResult(acciones, JobsLoopStop(acciones, oracle, <<>>, <<>>))

_ejecutar_jobs_correctivos(acciones, oracle) ==
    JobsResult(acciones, JobsLoop(acciones, oracle, <<>>, <<>>))

\* _descargar_pdfs: clearing the staging directory may fail before any
\* document is requested
_descargar_pdfs(t, o) ==
    IF o = "fs_error" THEN Raise(<<"os error">>)
    ELSE LET r == descargar_todos_reportes(t, o)
         IN IF r.exc THEN r
            ELSE Ret(<<r.val[1], r.val[2], [archivos |-> r.val[3]]>>)

\* _copiar_archivos: every error is caught and returned
_copiar_archivos(o) ==
    IF o = "ok" THEN Ret(<<TRUE, <<"5", " archivos copiados">>, [archivos |-> <<"all.pdf">>]>>)
    ELSE IF o = "no_dest"
    THEN Ret(<<FALSE, <<"Carpeta destino no accesible: ", "dest">>, EmptyDict>>)
    ELSE IF o = "perm"
    THEN Ret(<<FALSE, <<"Sin permisos para escribir en ", "dest", ": ", "os error">>, EmptyDict>>)
    ELSE Ret(<<FALSE, <<"os error">>, EmptyDict>>)

\* _descargar_pdfs on the staging directory d.  Every entry is removed in
\* listing order, and os.remove raises on a subdirectory or on a file it may
\* not delete: kept are the plain files that are still there then.  An
\* absent directory is created, which may fail (mk).
ClearFails(d, kept, mk) ==
    IF d.exists THEN d.dirs # {} \/ kept # {} ELSE mk = "error"

_descargar_pdfs_SinLimpiar(t, d, today, outs, kept, mk) ==
    LET x == descargar_todos_reportes_fs(t, d, today, outs)
    IN [r |-> IF x.r.exc THEN x.r
              ELSE Ret(<<x.r.val[1], x.r.val[2], [archivos |-> x.r.val[3]]>>),
        dir |-> x.dir, calls |-> x.calls]

_descargar_pdfs_fs(t, d, today, outs, kept, mk) ==
    IF ClearFails(d, kept, mk)
    THEN [r |-> Raise(<<"os error">>),
          dir |-> IF d.exists THEN [d EXCEPT !.files = kept] ELSE d,
          calls |-> <<>>]
    ELSE LET x == descargar_todos_reportes_fs(t, EmptyDir, today, outs)
         IN [r |-> IF x.r.exc THEN x.r
                   ELSE Ret(<<x.r.val[1], x.r.val[2], [archivos |-> x.r.val[3]]>>),
             dir |-> x.dir, calls |-> x.calls]

\* the two except clauses of _copiar_archivos
CopyFailure(kind) ==
    IF kind = "perm"
    THEN Ret(<<FALSE, <<"Sin permisos para escribir en ", "dest", ": ", "os error">>,
               EmptyDict>>)
    ELSE Ret(<<FALSE, <<"os error">>, EmptyDict>>)

\* _copiar_archivos from source to dest.  kept: the plain files of dest
\* still there when os.remove raised (none when every removal worked);
\* copied: the files of source that were copied (all of them unless a copy
\* raised); kind: the class of the error raised, if any.
_copiar_archivos_Propaga(source, dest, kept, copied, kind) ==
    IF ~dest.exists
    THEN [r |-> Ret(<<FALSE, <<"Carpeta destino no accesible: ", "dest">>, EmptyDict>>),
          dest |-> dest]
    ELSE IF kept # {}
    THEN [r |-> Raise(<<"os error">>), dest |-> [dest EXCEPT !.files = kept]]
    ELSE LET d1 == [dest EXCEPT !.files = {}]
         IN IF ~source.exists
            THEN [r |-> Raise(<<"os error">>), dest |-> d1]
            ELSE IF source.dirs # {} \/ copied # source.files
            THEN [r |-> Raise(<<"os error">>), dest |-> CopyAll(d1, copied)]
            ELSE [r |-> Ret(<<TRUE,
                              <<ToString(Cardinality(listdir(source))), " archivos copiados">>,
                              [archivos |-> SetToSeq(listdir(source))]>>),
                  dest |-> CopyAll(d1, source.files)]

_copiar_archivos_fs(source, dest, kept, copied, kind) ==
    IF ~dest.exists
    THEN [r |-> Ret(<<FALSE, <<"Carpeta destino no accesible: ", "dest">>, EmptyDict>>),
          dest |-> dest]
    ELSE IF kept # {}
    THEN [r |-> CopyFailure(kind), dest |-> [dest EXCEPT !.files = kept]]
    ELSE LET d1 == [dest EXCEPT !.files = {}]
         IN IF ~source.exists
            THEN [r |-> CopyFailure("os"), dest |-> d1]
            ELSE IF source.dirs # {} \/ copied # source.files
            THEN [r |-> CopyFailure(kind), dest |-> CopyAll(d1, copied)]
            ELSE [r |-> Ret(<<TRUE,
                              <<ToString(Cardinality(listdir(source))), " archivos copiados">>,
                              [archivos |-> SetToSeq(listdir(source))]>>),
                  dest |-> CopyAll(d1, source.files)]

\* what the steps of this run found in and did to the directories
NoFileLog ==
    [calls |-> <<>>, today |-> [weekday |-> 0, day |-> 1],
     staging0 |-> NoDir, source0 |-> NoDir, dest0 |-> NoDir]

\* ------------------------------------------------------- _execute_step
\* s = [steps, observed]; op is the outcome of calling func(); obs is the
\* behaviour of the observer callback, which is called outside the try.
\* a variant that puts the new result in front of the list
_execute_step_Prepend(s, nombre, op, obs) ==
    LET result == IF op.exc
                  THEN StepResult(nombre, FALSE, op.err, EmptyDict)
                  ELSE StepResult(nombre, op.val[1], op.val[2], op.val[3])
        s1 == [steps |-> <<result>> \o s.steps,
               observed |-> Append(s.observed, result)]
    IN [exc |-> obs = "raise", err |-> IF obs = "raise" THEN ObserverError ELSE <<>>,
        result |-> result, st |-> s1]

\* a variant that tells the observer of successful steps only
_execute_step_SoloExito(s, nombre, op, obs) ==
    LET result == IF op.exc
                  THEN StepResult(nombre, FALSE, op.err, EmptyDict)
                  ELSE StepResult(nombre, op.val[1], op.val[2], op.val[3])
        s1 == [steps |-> Append(s.steps, result),
               observed |-> IF result.success THEN Append(s.observed, result)
                            ELSE s.observed]
    IN [exc |-> result.success /\ obs = "raise",
        err |-> IF result.success /\ obs = "raise" THEN ObserverError ELSE <<>>,
        result |-> result, st |-> s1]

_execute_step_Propagates(s, nombre, op, obs) ==
    LET result == StepResult(nombre, op.val[1], op.val[2], op.val[3])
        s1 == [steps |-> Append(s.steps, result),
               observed |-> Append(s.observed, result)]
    IN IF op.exc THEN [exc |-> TRUE, err |-> op.err, result |-> NoStep, st |-> s]
       ELSE [exc |-> obs = "raise", err |-> IF obs = "raise" THEN ObserverError ELSE <<>>,
             result |-> result, st |-> s1]

_execute_step(s, nombre, op, obs) ==
    LET result == IF op.exc
                  THEN StepResult(nombre, FALSE, op.err, EmptyDict)
                  ELSE StepResult(nombre, op.val[1], op.val[2], op.val[3])
        s1 == [steps |-> Append(s.steps, result),
               observed |-> Append(s.observed, result)]
    IN [exc |-> obs = "raise", err |-> IF obs = "raise" THEN ObserverError ELSE <<>>,
        result |-> result, st |-> s1]

\* ------------------------------------------------------- _handle_error
\* e = [ticket_jira, issues, jiraCalls, alerts, escalations]; the result
\* carries the state after the call and whether an exception left
\* _handle_error.  Each invocation is recorded with the ticket held on
\* entry and the collaborator calls it made, in order.
JiraCall(titulo, descripcion, t) ==
    [titulo |-> titulo, descripcion |-> descripcion,
     ticket_key |-> IF t.exc THEN NoTicket ELSE t.val[3]]

Escalation(e, paso_fallido, error, trace, exc) ==
    Append(e.escalations,
           [paso_fallido |-> paso_fallido, error |-> error,
            ticket_antes |-> e.ticket_jira, trace |-> trace, raised |-> exc])

_handle_error_SkipAlert(e, paso_fallido, error, tk, ml) ==
    LET titulo == <<"[AUTO] Error en Reportes MP: ", paso_fallido>>
        t == crear_ticket_error(titulo, error, tk, e.issues)
        calls == Append(e.jiraCalls, JiraCall(titulo, error, t))
        success == t.val[1]
        ticket_key == t.val[3]
        tj == IF success THEN ticket_key ELSE e.ticket_jira
    IN [exc |-> FALSE, err |-> <<>>,
        st |-> [ticket_jira |-> tj,
                issues |-> IF success THEN e.issues + 1 ELSE e.issues,
                jiraCalls |-> calls,
                alerts |-> IF success
                           THEN Append(e.alerts,
                                       AlertaBody(<<"Error en: ", paso_fallido>>, error, tj))
                           ELSE e.alerts,
                escalations |->
                    Escalation(e, paso_fallido, error,
                               IF success
                               THEN <<"crear_ticket_error", "enviar_alerta_error">>
                               ELSE <<"crear_ticket_error">>, FALSE)]]

_handle_error(e, paso_fallido, error, tk, ml) ==
    LET titulo == <<"[AUTO] Error en Reportes MP: ", paso_fallido>>
        t == crear_ticket_error(titulo, error, tk, e.issues)
        calls == Append(e.jiraCalls, JiraCall(titulo, error, t))
    IN IF t.exc
       THEN [exc |-> TRUE, err |-> t.err,
             st |-> [e EXCEPT !.jiraCalls = calls,
                              !.escalations =
                                  Escalation(e, paso_fallido, error,
                                             <<"crear_ticket_error">>, TRUE)]]
       ELSE LET success == t.val[1]
                ticket_key == t.val[3]
                tj == IF success THEN ticket_key ELSE e.ticket_jira
                a == enviar_alerta_error(<<"Error en: ", paso_fallido>>, error, tj, ml)
                st1 == [ticket_jira |-> tj,
                        issues |-> IF success THEN e.issues + 1 ELSE e.issues,
                        jiraCalls |-> calls,
                        alerts |-> Append(e.alerts,
                                          AlertaBody(<<"Error en: ", paso_fallido>>, error, tj)),
                        escalations |->
                            Escalation(e, paso_fallido, error,
                                       <<"crear_ticket_error", "enviar_alerta_error">>,
                                       a.exc)]
            IN [exc |-> a.exc, err |-> a.err, st |-> st1]

\* ------------------------------------------------------------ run state
EscNow == [ticket_jira |-> ticket_jira, issues |-> issues,
           jiraCalls |-> jiraCalls, alerts |-> alerts, escalations |-> escalations]

StepsNow == [steps |-> steps, observed |-> observed]

SetEsc(e) ==
    /\ ticket_jira' = e.ticket_jira
    /\ issues' = e.issues
    /\ jiraCalls' = e.jiraCalls
    /\ alerts' = e.alerts
    /\ escalations' = e.escalations

\* the bookkeeping of one _execute_step call
RecordedStep(x, op) ==
    /\ steps' = x.st.steps
    /\ observed' = x.st.observed
    /\ lastStep' = [op |-> op, exc |-> x.exc, err |-> x.err, result |-> x.result]
    /\ UNCHANGED <<refresh, cli, callVars>>

\* ... of a step that does not touch the directories
Recorded(x, op) ==
    /\ RecordedStep(x, op)
    /\ UNCHANGED fileVars

Return(e, success, mensaje) ==
    /\ pc' = "done"
    /\ SetEsc(e)
    /\ ret' = [success |-> success, mensaje |-> mensaje]
    /\ raised' = NoExc

Escape(e, err) ==
    /\ pc' = "done"
    /\ SetEsc(e)
    /\ ret' = NoRet
    /\ raised' = err

Continue(next) ==
    /\ pc' = next
    /\ UNCHANGED <<ticket_jira, issues, jiraCalls, alerts, escalations, ret, raised>>

\* except Exception as e: of run_full and run_send_only
Except_Silent(e, err) == Return(e, FALSE, err)

Except(e, err) ==
    \E tk \in TicketOutcomes, ml \in MailOutcomes :
        LET h == _handle_error(e, "Error Inesperado", err, tk, ml)
        IN IF h.exc THEN Escape(h.st, h.err)
           ELSE Return(h.st, FALSE, err)

\* if not result.success: self._handle_error(...); return (False, ...)
FailGate_NoReturn(result, paso_fallido, prefix, next) ==
    \E tk \in TicketOutcomes, ml \in MailOutcomes :
        LET h == _handle_error(EscNow, paso_fallido, result.mensaje, tk, ml)
        IN IF h.exc THEN Except(h.st, h.err)
           ELSE /\ pc' = next
                /\ SetEsc(h.st)
                /\ UNCHANGED <<ret, raised>>

FailGate(result, paso_fallido, prefix, next) ==
    \E tk \in TicketOutcomes, ml \in MailOutcomes :
        LET h == _handle_error(EscNow, paso_fallido, result.mensaje, tk, ml)
        IN IF h.exc THEN Except(h.st, h.err)
           ELSE Return(h.st, FALSE, prefix \o result.mensaje)

\* A gate of run_full: the step, then escalation and return on failure.
\* tStay is the report-server session when the run goes on, tLeave when it
\* leaves the enclosing with-block by return or exception.
GateAfter(x, paso_fallido, prefix, next, tStay, tLeave) ==
    /\ UNCHANGED summaries
    /\ IF x.exc
       THEN Except(EscNow, x.err) /\ tableau' = tLeave
       ELSE IF ~x.result.success
       THEN /\ FailGate(x.result, paso_fallido, prefix, next)
            /\ tableau' = IF pc' = "done" THEN tLeave ELSE tStay
       ELSE Continue(next) /\ tableau' = tStay

Gate(x, op, paso_fallido, prefix, next, tStay, tLeave) ==
    /\ Recorded(x, op)
    /\ GateAfter(x, paso_fallido, prefix, next, tStay, tLeave)

\* ---------------------------------------------------------------- Config
\* A configuration is the set of environment names that have a value.
EnvNames ==
    {"TABLEAU_USER", "TABLEAU_PASSWORD", "SQL_INFOCENTRAL_PWD", "SQL_DEADWH_PWD",
     "SQL_CUBOSOFI_PWD"}

\* Config.validate: the checks in their order; (len(errors) == 0, errors)
Checked ==
    <<"TABLEAU_USER", "TABLEAU_PASSWORD", "SQL_INFOCENTRAL_PWD", "SQL_DEADWH_PWD">>

RECURSIVE ValidateErrors(_, _)
ValidateErrors(config, checks) ==
    IF checks = <<>> THEN <<>>
    ELSE (IF Head(checks) \notin config
          THEN <<<<Head(checks), " no configurado">>>> ELSE <<>>)
         \o ValidateErrors(config, Tail(checks))

\* a variant that does not look at the DEADWH password
validate_SinDeadwh(config) ==
    LET errors == ValidateErrors(config, SubSeq(Checked, 1, 3))
    IN <<Len(errors) = 0, errors>>

validate(config) ==
    LET errors == ValidateErrors(config, Checked)
    IN <<Len(errors) = 0, errors>>

\* ------------------------------------------------------- run_workflow.py
NoProcess ==
    [pc |-> "none", action |-> "none", config |-> {}, errors |-> <<>>,
     interrupted |-> FALSE, code |-> 0, summary |-> EmptyDict]

\* return 0 if success else 1
exit_code(r) == IF r.success THEN 0 ELSE 1

\* main: the value of run_full() / run_validation() / run_send(), or 1 from
\* "except Exception"
main_result_Ok(r, e) == IF r # NoRet THEN exit_code(r) ELSE 0

main_result(r, e) == IF r # NoRet THEN exit_code(r) ELSE 1

\* print_result(success, message, workflow.get_summary()) of a run that
\* returned
printed_summary(r, ss, tj) == IF r # NoRet THEN get_summary(ss, tj) ELSE EmptyDict

\* ----------------------------------------------------------------- Init
InitObjects ==
    /\ pc = "idle"
    /\ flow = "none"
    /\ steps = <<>>
    /\ ticket_jira = NoTicket
    /\ observed = <<>>
    /\ lastStep = NoStep
    /\ issues = 0
    /\ jiraCalls = <<>>
    /\ alerts = <<>>
    /\ escalations = <<>>
    /\ summaries = <<>>
    /\ jobLog = <<>>
    /\ tableau = [connected |-> FALSE, signIns |-> 0, signOuts |-> 0]
    /\ ret = NoRet
    /\ raised = NoExc
    /\ refresh = NoCall
    /\ cli = NoProcess

\* no call of the three client methods that are followed on their own
InitCalls ==
    /\ select = NoSelect
    /\ extracto = NoExtracto
    /\ jobCall = NoJob

Init ==
    /\ InitObjects
    /\ files = [staging |-> NoDir, dest |-> NoDir]
    /\ fileLog = NoFileLog
    /\ InitCalls

\* what every run method does first: self.steps = []; the records of the
\* collaborators' calls are kept per run
Begin(f, first) ==
    /\ pc \in {"idle", "done"}
    /\ issues < MaxIssues
    /\ flow' = f
    /\ pc' = first
    /\ steps' = <<>>
    /\ observed' = <<>>
    /\ lastStep' = NoStep
    /\ jiraCalls' = <<>>
    /\ alerts' = <<>>
    /\ escalations' = <<>>
    /\ summaries' = <<>>
    /\ jobLog' = <<>>
    /\ tableau' = [connected |-> FALSE, signIns |-> 0, signOuts |-> 0]
    /\ ret' = NoRet
    /\ raised' = NoExc
    /\ fileLog' = NoFileLog
    /\ UNCHANGED <<issues, refresh, files, callVars>>

\* ------------------------------------------------------------- run_full
Full_Start ==
    /\ Begin("full", "f1")
    /\ ticket_jira' = NoTicket
    /\ UNCHANGED cli

Full_Validar ==
    /\ pc = "f1"
    /\ \E co \in ConnectOutcomes, o \in ValidarOutcomes, obs \in ObserverOutcomes :
        LET t == Enter(tableau, co)
            op == _wrap_validacion(validar_extracto(t, o))
            x == _execute_step(StepsNow, "1. Validar Extracto Tableau", op, obs)
        IN /\ Recorded(x, op)
           /\ UNCHANGED <<summaries, jobLog, flow>>
           /\ IF x.exc
              THEN Except(EscNow, x.err) /\ tableau' = disconnect(t)
              ELSE IF ~x.result.success
              THEN Continue("f11") /\ tableau' = t
              ELSE Continue("f2") /\ tableau' = disconnect(t)

\* a variant that goes on to revalidate after a failed refresh
Full_Refresh_SinGate ==
    /\ pc = "f11"
    /\ \E o \in RefreshOutcomes, obs \in ObserverOutcomes :
        LET op == WithEmptyDetails(refresh_extracto(tableau, o))
            x == _execute_step(StepsNow, "1.1 Refresh Extracto", op, obs)
        IN /\ Recorded(x, op)
           /\ UNCHANGED <<summaries, jobLog, flow>>
           /\ IF x.exc
              THEN Except(EscNow, x.err) /\ tableau' = disconnect(tableau)
              ELSE Continue("f12") /\ tableau' = tableau

Full_Refresh ==
    /\ pc = "f11"
    /\ \E o \in RefreshOutcomes, obs \in ObserverOutcomes :
        LET op == WithEmptyDetails(refresh_extracto(tableau, o))
            x == _execute_step(StepsNow, "1.1 Refresh Extracto", op, obs)
        IN /\ Gate(x, op, "Refresh de Extracto", <<"Error en extracto: ">>, "f12",
                   tableau, disconnect(tableau))
           /\ UNCHANGED <<jobLog, flow>>

\* a variant that records the second validation under the first one's name
Full_Revalidar_MismoNombre ==
    /\ pc = "f12"
    /\ \E o \in ValidarOutcomes, obs \in ObserverOutcomes :
        LET op == _wrap_validacion(validar_extracto(tableau, o))
            x == _execute_step(StepsNow, "1. Validar Extracto Tableau", op, obs)
        IN /\ Gate(x, op, "Validacion post-refresh", <<"Extracto sigue desactualizado: ">>,
                   "f2", disconnect(tableau), disconnect(tableau))
           /\ UNCHANGED <<jobLog, flow>>

Full_Revalidar ==
    /\ pc = "f12"
    /\ \E o \in ValidarOutcomes, obs \in ObserverOutcomes :
        LET op == _wrap_validacion(validar_extracto(tableau, o))
            x == _execute_step(StepsNow, "1.2 Revalidar Extracto", op, obs)
        IN /\ Gate(x, op, "Validacion post-refresh", <<"Extracto sigue desactualizado: ">>,
                   "f2", disconnect(tableau), disconnect(tableau))
           /\ UNCHANGED <<jobLog, flow>>

\* if not result.success and result.detalles.get('hay_diferencias'):
EntraCorrectivos_Siempre(result) == TRUE

EntraCorrectivos(result) ==
    /\ ~result.success
    /\ "hay_diferencias" \in DOMAIN result.detalles
    /\ result.detalles.hay_diferencias = TRUE

Full_Inventario ==
    /\ pc = "f2"
    /\ \E r \in InventarioResults, obs \in ObserverOutcomes :
        LET op == _validar_inventario(r)
            x == _execute_step(StepsNow, "2. Validar Inventario SQL", op, obs)
        IN /\ Recorded(x, op)
           /\ UNCHANGED <<summaries, jobLog, flow, tableau>>
           /\ IF x.exc
              THEN Except(EscNow, x.err)
              ELSE IF EntraCorrectivos(x.result)
              THEN Continue("f21")
              ELSE Continue("f3")

\* acciones = result.detalles.get('acciones', [])
AccionesDe(result) ==
    IF "acciones" \in DOMAIN result.detalles THEN result.detalles.acciones ELSE <<>>

\* a variant that skips the cube refresh when no corrective job was run
Full_Jobs_SinCubo ==
    /\ pc = "f21"
    /\ LET acciones == AccionesDe(Last(steps))
       IN \E oracle \in [1..NumJobs(acciones) -> JobOutcomes], obs \in ObserverOutcomes :
           LET j == _ejecutar_jobs_correctivos(acciones, oracle)
               op == Ret(j.val)
               x == _execute_step(StepsNow, "2.1 Ejecutar Jobs Correctivos", op, obs)
           IN /\ Gate(x, op, "Jobs Correctivos", <<"Error en jobs correctivos: ">>,
                      IF NumJobs(acciones) = 0 THEN "f3" ELSE "f22",
                      tableau, tableau)
              /\ jobLog' = jobLog \o j.log
              /\ UNCHANGED <<flow>>

Full_Jobs ==
    /\ pc = "f21"
    /\ LET acciones == AccionesDe(Last(steps))
       IN \E oracle \in [1..NumJobs(acciones) -> JobOutcomes], obs \in ObserverOutcomes :
           LET j == _ejecutar_jobs_correctivos(acciones, oracle)
               op == Ret(j.val)
               x == _execute_step(StepsNow, "2.1 Ejecutar Jobs Correctivos", op, obs)
           IN /\ Gate(x, op, "Jobs Correctivos", <<"Error en jobs correctivos: ">>, "f22",
                      tableau, tableau)
              /\ jobLog' = jobLog \o j.log
              /\ UNCHANGED <<flow>>

Full_Cubo ==
    /\ pc = "f22"
    /\ \E o \in JobOutcomes, obs \in ObserverOutcomes :
        LET r == ejecutar_job_inventario(o)
            op == WithEmptyDetails(Ret(r))
            x == _execute_step(StepsNow, "2.2 Actualizar Cubo", op, obs)
        IN /\ Gate(x, op, "Actualizacion de Cubo", <<"Error actualizando cubo: ">>, "f3",
                   tableau, tableau)
           /\ jobLog' = Append(jobLog, JobCall("BI Inventario Chatarra 5:15 am", r))
           /\ UNCHANGED <<flow>>

\* a variant that goes on to the copy after a failed render
Full_Descargar_SinGate ==
    /\ pc = "f3"
    /\ \E co \in ConnectOutcomes, o \in RenderOutcomes, obs \in ObserverOutcomes :
        LET t == Enter(tableau, co)
            op == _descargar_pdfs(t, o)
            x == _execute_step(StepsNow, "3. Descargar PDFs", op, obs)
        IN /\ Recorded(x, op)
           /\ UNCHANGED <<summaries, jobLog, flow>>
           /\ tableau' = disconnect(t)
           /\ IF x.exc
              THEN Except(EscNow, x.err)
              ELSE Continue("f4")

Full_Descargar ==
    /\ pc = "f3"
    /\ \E co \in ConnectOutcomes, o \in RenderOutcomes, obs \in ObserverOutcomes :
        LET t == Enter(tableau, co)
            op == _descargar_pdfs(t, o)
            x == _execute_step(StepsNow, "3. Descargar PDFs", op, obs)
        IN /\ Gate(x, op, "Descarga de PDFs", <<"Error descargando PDFs: ">>, "f4",
                   disconnect(t), disconnect(t))
           /\ UNCHANGED <<jobLog, flow>>

\* a variant that goes on to the send after a failed copy
Full_Copiar_SinGate ==
    /\ pc = "f4"
    /\ \E o \in CopyOutcomes, obs \in ObserverOutcomes :
        LET op == _copiar_archivos(o)
            x == _execute_step(StepsNow, "4. Copiar a DEADWH", op, obs)
        IN /\ Recorded(x, op)
           /\ UNCHANGED <<summaries, jobLog, flow, tableau>>
           /\ IF x.exc
              THEN Except(EscNow, x.err)
              ELSE Continue("f5")

Full_Copiar ==
    /\ pc = "f4"
    /\ \E o \in CopyOutcomes, obs \in ObserverOutcomes :
        LET op == _copiar_archivos(o)
            x == _execute_step(StepsNow, "4. Copiar a DEADWH", op, obs)
        IN /\ Gate(x, op, "Copia de Archivos", <<"Error copiando archivos: ">>, "f5",
                   tableau, tableau)
           /\ UNCHANGED <<jobLog, flow>>

Full_Enviar ==
    /\ pc = "f5"
    /\ \E o \in SendOutcomes, obs \in ObserverOutcomes :
        LET op == WithEmptyDetails(enviar_reportes(o))
            x == _execute_step(StepsNow, "5. Enviar Correos", op, obs)
        IN /\ Gate(x, op, "Envio de Correos", <<"Error enviando correos: ">>, "f6",
                   tableau, tableau)
           /\ UNCHANGED <<jobLog, flow>>

\* the success block shared by run_full and run_send_only: the summary
\* mail, then return (True, ...)
Exito(mensaje, sm) ==
    LET pasos == MapToDict(steps)
        r == enviar_resumen_proceso(TRUE, pasos, sm)
    IN /\ summaries' = Append(summaries, [exito |-> TRUE, pasos |-> pasos,
                                          ticket |-> NoTicket, r |-> r])
       /\ IF r.exc THEN Except(EscNow, r.err)
          ELSE Return(EscNow, TRUE, mensaje)
       /\ UNCHANGED <<steps, observed, lastStep, jobLog, tableau, flow, refresh, cli, fileVars, callVars>>

\* a variant that returns success without the summary mail
Full_Exito_SinResumen ==
    /\ pc = "f6"
    /\ Return(EscNow, TRUE, <<"Proceso completado en ", "t", "s">>)
    /\ UNCHANGED <<steps, observed, lastStep, jobLog, tableau, flow, summaries, refresh, cli,
                 fileVars, callVars>>

Full_Exito ==
    /\ pc = "f6"
    /\ \E sm \in MailOutcomes :
        Exito(<<"Proceso completado en ", "t", "s">>, sm)

\* -------------------------------------------------------- run_send_only
Send_Start ==
    /\ Begin("send", "s1")
    /\ UNCHANGED <<ticket_jira, cli>>

\* a variant that returns the prefixed message of run_full
Send_Enviar_Prefijo ==
    /\ pc = "s1"
    /\ \E o \in SendOutcomes, obs \in ObserverOutcomes :
        LET op == WithEmptyDetails(enviar_reportes(o))
            x == _execute_step(StepsNow, "Enviar Correos", op, obs)
        IN /\ Gate(x, op, "Envio de Correos", <<"Error enviando correos: ">>, "s2",
                   tableau, tableau)
           /\ UNCHANGED <<jobLog, flow>>

Send_Enviar ==
    /\ pc = "s1"
    /\ \E o \in SendOutcomes, obs \in ObserverOutcomes :
        LET op == WithEmptyDetails(enviar_reportes(o))
            x == _execute_step(StepsNow, "Enviar Correos", op, obs)
        IN /\ Gate(x, op, "Envio de Correos", <<>>, "s2",
                   tableau, tableau)
           /\ UNCHANGED <<jobLog, flow>>

Send_Exito ==
    /\ pc = "s2"
    /\ \E sm \in MailOutcomes :
        Exito(<<"Correos enviados exitosamente en ", "t", "s">>, sm)

\* -------------------------------------------------- run_validation_only
Val_Start ==
    /\ Begin("validate", "v1")
    /\ UNCHANGED <<ticket_jira, cli>>

\* a variant that refreshes whatever the first check says
Val_Validar_SiempreRefresca ==
    /\ pc = "v1"
    /\ \E co \in ConnectOutcomes, o \in ValidarOutcomes, obs \in ObserverOutcomes :
        LET t == Enter(tableau, co)
            op == _wrap_validacion(validar_extracto(t, o))
            x == _execute_step(StepsNow, "Validar Extracto Tableau", op, obs)
        IN /\ Recorded(x, op)
           /\ UNCHANGED <<summaries, jobLog, flow>>
           /\ IF x.exc
              THEN Escape(EscNow, x.err) /\ tableau' = disconnect(t)
              ELSE Continue("v11") /\ tableau' = t

Val_Validar ==
    /\ pc = "v1"
    /\ \E co \in ConnectOutcomes, o \in ValidarOutcomes, obs \in ObserverOutcomes :
        LET t == Enter(tableau, co)
            op == _wrap_validacion(validar_extracto(t, o))
            x == _execute_step(StepsNow, "Validar Extracto Tableau", op, obs)
        IN /\ Recorded(x, op)
           /\ UNCHANGED <<summaries, jobLog, flow>>
           /\ IF x.exc
              THEN Escape(EscNow, x.err) /\ tableau' = disconnect(t)
              ELSE IF x.result.success
              THEN Return(EscNow, TRUE, x.result.mensaje) /\ tableau' = disconnect(t)
              ELSE Continue("v11") /\ tableau' = t

\* a variant that treats the refresh like the gate of run_full
Val_Refresh_Escala ==
    /\ pc = "v11"
    /\ \E o \in RefreshOutcomes, obs \in ObserverOutcomes :
        LET op == WithEmptyDetails(refresh_extracto(tableau, o))
            x == _execute_step(StepsNow, "Refresh Extracto", op, obs)
        IN /\ Gate(x, op, "Refresh de Extracto", <<>>, "v12",
                   tableau, disconnect(tableau))
           /\ UNCHANGED <<jobLog, flow>>

\* a variant that tries the refresh again after a failed one
Val_Refresh_Reintenta ==
    /\ pc = "v11"
    /\ \E o \in RefreshOutcomes, obs \in ObserverOutcomes :
        LET op == WithEmptyDetails(refresh_extracto(tableau, o))
            x == _execute_step(StepsNow, "Refresh Extracto", op, obs)
        IN /\ Recorded(x, op)
           /\ UNCHANGED <<summaries, jobLog, flow>>
           /\ IF x.exc
              THEN Escape(EscNow, x.err) /\ tableau' = disconnect(tableau)
              ELSE IF x.result.success
              THEN Continue("v12") /\ tableau' = tableau
              ELSE IF Len(steps) < 2
              THEN Continue("v11") /\ tableau' = tableau
              ELSE Return(EscNow, FALSE, x.result.mensaje) /\ tableau' = disconnect(tableau)

Val_Refresh ==
    /\ pc = "v11"
    /\ \E o \in RefreshOutcomes, obs \in ObserverOutcomes :
        LET op == WithEmptyDetails(refresh_extracto(tableau, o))
            x == _execute_step(StepsNow, "Refresh Extracto", op, obs)
        IN /\ Recorded(x, op)
           /\ UNCHANGED <<summaries, jobLog, flow>>
           /\ IF x.exc
              THEN Escape(EscNow, x.err) /\ tableau' = disconnect(tableau)
              ELSE IF x.result.success
              THEN Continue("v12") /\ tableau' = tableau
              ELSE Return(EscNow, FALSE, x.result.mensaje) /\ tableau' = disconnect(tableau)

Val_Revalidar ==
    /\ pc = "v12"
    /\ \E o \in ValidarOutcomes, obs \in ObserverOutcomes :
        LET op == _wrap_validacion(validar_extracto(tableau, o))
            x == _execute_step(StepsNow, "Revalidar Extracto", op, obs)
        IN /\ Recorded(x, op)
           /\ UNCHANGED <<summaries, jobLog, flow>>
           /\ tableau' = disconnect(tableau)
           /\ IF x.exc
              THEN Escape(EscNow, x.err)
              ELSE Return(EscNow, x.result.success, x.result.mensaje)

\* ----------------------------------------------------------------- Spec
Next ==
    \/ Full_Start
    \/ Full_Validar
    \/ Full_Refresh
    \/ Full_Revalidar
    \/ Full_Inventario
    \/ Full_Jobs
    \/ Full_Cubo
    \/ Full_Descargar
    \/ Full_Copiar
    \/ Full_Enviar
    \/ Full_Exito
    \/ Send_Start
    \/ Send_Enviar
    \/ Send_Exito
    \/ Val_Start
    \/ Val_Validar
    \/ Val_Refresh
    \/ Val_Revalidar

Spec == Init /\ [][Next]_vars

\* ------------------------------------------------------- run_workflow.py
\* One process after another of the command line.  A process starts with
\* no ReportWorkflow; the tracker's issues outlive it.
CLI_Main ==
    /\ cli.pc \in {"none", "exited"}
    /\ cli' = [NoProcess EXCEPT !.pc = "main"]
    /\ pc' = "idle"
    /\ flow' = "none"
    /\ steps' = <<>>
    /\ ticket_jira' = NoTicket
    /\ observed' = <<>>
    /\ lastStep' = NoStep
    /\ jiraCalls' = <<>>
    /\ alerts' = <<>>
    /\ escalations' = <<>>
    /\ summaries' = <<>>
    /\ jobLog' = <<>>
    /\ tableau' = [connected |-> FALSE, signIns |-> 0, signOuts |-> 0]
    /\ ret' = NoRet
    /\ raised' = NoExc
    /\ fileLog' = NoFileLog
    /\ UNCHANGED <<issues, refresh, files, callVars>>

\* parse_args, then "if not validate_config(): return 1"
CLI_Validate ==
    /\ cli.pc = "main"
    /\ \E action \in {"full", "validate", "send"}, config \in SUBSET EnvNames :
        LET v == validate(config)
            p == [cli EXCEPT !.action = action, !.config = config, !.errors = v[2]]
        IN cli' = IF v[1] THEN [p EXCEPT !.pc = "validated"]
                  ELSE [p EXCEPT !.pc = "exited", !.code = 1]
    /\ UNCHANGED <<workflowVars, refresh, fileVars, callVars>>

\* run_full / run_validation / run_send: a new ReportWorkflow, then its run
\* method
CLI_Run ==
    /\ cli.pc = "validated"
    /\ \/ cli.action = "full" /\ Begin("full", "f1")
       \/ cli.action = "validate" /\ Begin("validate", "v1")
       \/ cli.action = "send" /\ Begin("send", "s1")
    /\ ticket_jira' = NoTicket
    /\ cli' = [cli EXCEPT !.pc = "running"]

\* KeyboardInterrupt inside the try of main: no "except Exception" holds
\* it, the with-block signs out, main returns 130
CLI_Interrupt ==
    /\ cli.pc = "running"
    /\ cli' = [cli EXCEPT !.pc = "exited", !.interrupted = TRUE, !.code = 130]
    /\ IF pc = "done"
       THEN UNCHANGED <<pc, ret, raised, tableau>>
       ELSE /\ pc' = "done"
            /\ ret' = NoRet
            /\ raised' = <<"KeyboardInterrupt">>
            /\ tableau' = disconnect(tableau)
    /\ UNCHANGED <<flow, steps, ticket_jira, observed, lastStep, issues, jiraCalls,
                   alerts, escalations, summaries, jobLog, refresh, fileVars, callVars>>

CLI_Exit ==
    /\ cli.pc = "running"
    /\ pc = "done"
    /\ cli' = [cli EXCEPT !.pc = "exited", !.code = main_result(ret, raised),
                          !.summary = printed_summary(ret, steps, ticket_jira)]
    /\ UNCHANGED <<workflowVars, refresh, fileVars, callVars>>

NextCLI ==
    \/ CLI_Main
    \/ CLI_Validate
    \/ CLI_Run
    \/ CLI_Interrupt
    \/ CLI_Exit
    \/ Full_Validar
    \/ Full_Refresh
    \/ Full_Revalidar
    \/ Full_Inventario
    \/ Full_Jobs
    \/ Full_Cubo
    \/ Full_Descargar
    \/ Full_Copiar
    \/ Full_Enviar
    \/ Full_Exito
    \/ Send_Enviar
    \/ Send_Exito
    \/ Val_Validar
    \/ Val_Refresh
    \/ Val_Revalidar

SpecCLI == Init /\ [][NextCLI]_vars

\* ------------------------------------- TableauClient.refresh_extracto
\* One call after another of refresh_extracto, on a client that is
\* signed in or not, with max_wait_seconds up to MaxWaitSeconds.
Refresh_Find ==
    /\ refresh.pc \in {"idle", "returned", "raised"}
    /\ \E connected \in BOOLEAN, max_wait_seconds \in 0..MaxWaitSeconds,
          o \in {"found", "notfound", "find_error"} :
        refresh' = refresh_find(connected, max_wait_seconds, o)
    /\ UNCHANGED <<workflowVars, cli, fileVars, callVars>>

Refresh_Start ==
    /\ refresh.pc = "start"
    /\ \E o \in {"started", "error"} : refresh' = refresh_start(refresh, o)
    /\ UNCHANGED <<workflowVars, cli, fileVars, callVars>>

Refresh_Poll ==
    /\ refresh.pc = "loop"
    /\ WhileWaiting(refresh)
    /\ \E p \in PollOutcomes : refresh' = refresh_poll(refresh, p)
    /\ UNCHANGED <<workflowVars, cli, fileVars, callVars>>

Refresh_Timeout ==
    /\ refresh.pc = "loop"
    /\ ~WhileWaiting(refresh)
    /\ refresh' = refresh_timeout(refresh)
    /\ UNCHANGED <<workflowVars, cli, fileVars, callVars>>

NextRefresh ==
    \/ Refresh_Find
    \/ Refresh_Start
    \/ Refresh_Poll
    \/ Refresh_Timeout

\* the thread that runs refresh_extracto keeps running: sleep returns, and
\* each server call returns or raises
SpecRefresh == Init /\ [][NextRefresh]_vars /\ WF_vars(NextRefresh)

\* ---------------------------------- run_full and the two directories
\* The render and distribute steps of run_full with the staging and the
\* destination directory, for the runs whose extract is fresh and whose
\* inventory shows no differences; the other ways to the render step are
\* those of Spec.  Each behaviour is one run on directories left by
\* earlier runs and by other users of the share.
Dates == [weekday : 0..MaxWeekday, day : 1..MaxDay]

\* the rows of the table selected on a date
Selected(today) == {i \in 1..Len(reportes) : condition(reportes[i], today)}

OldDoc == File(PdfName("Reporte Inventario Diario"), <<"anterior", "pdf">>)
OldOther == File(PdfName("otro"), <<"anterior", "pdf">>)

StagingFound ==
    {NoDir, EmptyDir,
     [exists |-> TRUE, files |-> {OldDoc, OldOther}, dirs |-> {}],
     [exists |-> TRUE, files |-> {OldDoc}, dirs |-> {SubDir(<<"sub">>, {})}]}

DestFound ==
    {NoDir, EmptyDir,
     [exists |-> TRUE, files |-> {OldDoc, OldOther}, dirs |-> {}],
     [exists |-> TRUE, files |-> {OldOther}, dirs |-> {SubDir(<<"sub">>, {OldDoc})}],
     [exists |-> TRUE, files |-> {},
      dirs |-> {SubDir(PdfName("Reporte Inventario Diario"), {})}]}

InitFiles ==
    /\ InitObjects
    /\ files \in [staging : StagingFound, dest : {EmptyDir}]
                  \cup [staging : {[exists |-> TRUE, files |-> {OldDoc, OldOther},
                                    dirs |-> {}]},
                        dest : DestFound]
    /\ fileLog = NoFileLog
    /\ InitCalls

Files_Start ==
    /\ pc = "idle"
    /\ Full_Start

Files_Descargar ==
    /\ pc = "f3"
    /\ \E co \in ConnectOutcomes, obs \in ObserverOutcomes,
          kept \in SUBSET files.staging.files,
          mk \in (IF files.staging.exists THEN {"ok"} ELSE MkdirOutcomes) :
       \E today \in Dates :
       \E outs \in (IF co = "ok" /\ ~ClearFails(files.staging, kept, mk)
                    THEN [1..Cardinality(Selected(today)) -> DocOutcomes]
                    ELSE {[k \in 1..Cardinality(Selected(today)) |-> "ok"]}) :
        LET t == Enter(tableau, co)
            r == _descargar_pdfs_fs(t, files.staging, today, outs, kept, mk)
            x == _execute_step(StepsNow, "3. Descargar PDFs", r.r, obs)
        IN /\ RecordedStep(x, r.r)
           /\ GateAfter(x, "Descarga de PDFs", <<"Error descargando PDFs: ">>, "f4",
                        disconnect(t), disconnect(t))
           /\ files' = [files EXCEPT !.staging = r.dir]
           /\ fileLog' = [fileLog EXCEPT !.calls = r.calls, !.today = today,
                                         !.staging0 = files.staging]
           /\ UNCHANGED <<jobLog, flow>>

Files_Copiar ==
    /\ pc = "f4"
    /\ \E kept \in SUBSET files.dest.files, copied \in SUBSET files.staging.files,
          kind \in ErrorKinds, obs \in ObserverOutcomes :
        LET r == _copiar_archivos_fs(files.staging, files.dest, kept, copied, kind)
            x == _execute_step(StepsNow, "4. Copiar a DEADWH", r.r, obs)
        IN /\ RecordedStep(x, r.r)
           /\ GateAfter(x, "Copia de Archivos", <<"Error copiando archivos: ">>, "f5",
                        tableau, tableau)
           /\ files' = [files EXCEPT !.dest = r.dest]
           /\ fileLog' = [fileLog EXCEPT !.source0 = files.staging,
                                         !.dest0 = files.dest]
           /\ UNCHANGED <<jobLog, flow>>

NextFiles ==
    \/ Files_Start
    \/ Full_Validar
    \/ Full_Inventario
    \/ Files_Descargar
    \/ Files_Copiar
    \/ Full_Enviar
    \/ Full_Exito

SpecFiles == InitFiles /\ [][NextFiles]_vars

\* ------------------------------------------- the report table by date
\* datetime.today(): weekday() is 0 (Monday) .. 6, day is 1 .. 31
AllDates == [weekday : 0..6, day : 1..31]

InitSelect ==
    /\ InitObjects
    /\ files = [staging |-> NoDir, dest |-> NoDir]
    /\ fileLog = NoFileLog
    /\ select \in {[NoSelect EXCEPT !.today = d] : d \in AllDates}
    /\ extracto = NoExtracto
    /\ jobCall = NoJob

\* the loop over the table keeps the rows whose condition holds today
Select_Rows ==
    /\ select.pc = "idle"
    /\ select' = [select EXCEPT !.pc = "selected",
                                !.selected = SelectedRows(select.today)]
    /\ UNCHANGED <<workflowVars, refresh, cli, fileVars, extracto, jobCall>>

NextSelect == Select_Rows

SpecSelect == InitSelect /\ [][NextSelect]_vars

\* ------------------------------------------------- validar_extracto
\* ages of an extract in seconds: around 0, 2, 24 and 30 hours
Ages ==
    {0 - 1, 0, 2 * SecondsPerHour, 24 * SecondsPerHour - 1, 24 * SecondsPerHour,
     24 * SecondsPerHour + 1, 30 * SecondsPerHour}

\* the time of the call
Now == 48 * SecondsPerHour

Datasources ==
    [match : {"exact", "partial", "none"}, has_extracts : BOOLEAN,
     updated_at : {NoTime} \cup {[t |-> Now - a] : a \in Ages}]

\* the server lists at most MaxDatasources datasources
ServerLists == SeqsUpTo(Datasources, MaxDatasources)

InitValidar ==
    /\ InitObjects
    /\ files = [staging |-> NoDir, dest |-> NoDir]
    /\ fileLog = NoFileLog
    /\ select = NoSelect
    /\ jobCall = NoJob
    /\ extracto \in [pc : {"idle"}, connected : BOOLEAN, datasources : ServerLists,
                      now_utc : {Now}, max_age_hours : {0, 30},
                      max_extract_age_hours : {0, 2, 24}, out : {NoRet}]

Validar_Call ==
    /\ extracto.pc = "idle"
    /\ extracto' = [extracto EXCEPT
                        !.pc = "returned",
                        !.out = validar_extracto_edad(extracto.connected,
                                    extracto.datasources, extracto.now_utc,
                                    extracto.max_age_hours,
                                    extracto.max_extract_age_hours)]
    /\ UNCHANGED <<workflowVars, refresh, cli, fileVars, select, jobCall>>

NextValidar == Validar_Call

SpecValidar == InitValidar /\ [][NextValidar]_vars

\* ------------------------------------------------- SQLClient.execute_job
Job_Start ==
    /\ jobCall.pc \in {"idle", "returned"}
    /\ \E wait_for_completion \in BOOLEAN, max_wait \in 0..MaxJobWait,
          o \in {"started", "error"} :
        jobCall' = job_start(wait_for_completion, max_wait, o)
    /\ UNCHANGED <<workflowVars, refresh, cli, fileVars, select, extracto>>

Job_Poll ==
    /\ jobCall.pc = "loop"
    /\ JobWaiting(jobCall)
    /\ \E p \in JobPolls : jobCall' = job_poll(jobCall, p)
    /\ UNCHANGED <<workflowVars, refresh, cli, fileVars, select, extracto>>

Job_Timeout ==
    /\ jobCall.pc = "loop"
    /\ ~JobWaiting(jobCall)
    /\ jobCall' = job_timeout(jobCall)
    /\ UNCHANGED <<workflowVars, refresh, cli, fileVars, select, extracto>>

NextJob ==
    \/ Job_Start
    \/ Job_Poll
    \/ Job_Timeout

\* the thread that runs execute_job keeps running: sleep returns, and each
\* query returns or raises
SpecJob == Init /\ [][NextJob]_vars /\ WF_vars(NextJob)

\* =============================================================== claims
Returned == pc = "done" /\ ret # NoRet

GateNames ==
    {"1.1 Refresh Extracto", "1.2 Revalidar Extracto",
     "2.1 Ejecutar Jobs Correctivos", "2.2 Actualizar Cubo",
     "3. Descargar PDFs", "4. Copiar a DEADWH", "5. Enviar Correos"}

Inventario == "2. Validar Inventario SQL"

\* the entries of the step list with a given name
Indices(nombre) == {i \in 1..Len(steps) : steps[i].nombre = nombre}

\* C1: in run_full, a gate step (1.1, 1.2, 2.1, 2.2, 3, 4, 5) recorded with
\* success = false is the last entry of the step list, _handle_error has
\* been invoked and the run has returned failure; no later step exists.
C1_GateFailureIsTerminal ==
    flow = "full" =>
        \A i \in 1..Len(steps) :
            (steps[i].nombre \in GateNames /\ ~steps[i].success) =>
                /\ i = Len(steps)
                /\ pc = "done"
                /\ escalations # <<>>
                /\ ret # NoRet
                /\ ret.success = FALSE

C1_Witness ==
    /\ flow = "full"
    /\ Returned
    /\ Len(steps) >= 4
    /\ Last(steps).nombre = "2.2 Actualizar Cubo"
    /\ ~Last(steps).success

\* C2: in run_full, a reconcile step (2) that failed because the reconciler
\* raised (failed, details without hay_diferencias) is terminal: it stays
\* the last entry, and the run ends escalated with a failure verdict.
C2_ReconcileErrorIsTerminal ==
    flow = "full" =>
        \A i \in Indices(Inventario) :
            (~steps[i].success /\ "hay_diferencias" \notin DOMAIN steps[i].detalles) =>
                /\ i = Len(steps)
                /\ pc = "done" => (escalations # <<>> /\ ret # NoRet /\ ret.success = FALSE)

\* C3: when the operation given to _execute_step raises, its error does not
\* leave _execute_step; the result has success = false, the error text as
\* message and empty details, and it is the entry appended to the step list
\* and the value handed to the observer.
C3_ExecuteStepAbsorbs ==
    (lastStep # NoStep /\ lastStep.op.exc) =>
        /\ lastStep.result # NoStep
        /\ lastStep.result.success = FALSE
        /\ lastStep.result.mensaje = lastStep.op.err
        /\ lastStep.result.detalles = EmptyDict
        /\ steps # <<>> /\ Last(steps) = lastStep.result
        /\ observed # <<>> /\ Last(observed) = lastStep.result
        /\ lastStep.exc => lastStep.err = ObserverError

C3_Witness ==
    /\ lastStep # NoStep
    /\ lastStep.op.exc
    /\ ~lastStep.exc
    /\ flow = "full"
    /\ Len(steps) >= 2

\* C4: a run of run_full or run_send_only that returned failure made exactly
\* one ticket-creation attempt and sent exactly one error alert; one that
\* returned success made none; no run makes more than one of either.
C4_EscalationExactlyOnce ==
    flow \in {"full", "send"} =>
        /\ Len(jiraCalls) <= 1 /\ Len(alerts) <= 1
        /\ Returned =>
              IF ret.success
              THEN jiraCalls = <<>> /\ alerts = <<>>
              ELSE Len(jiraCalls) = 1 /\ Len(alerts) = 1

C4_Witness ==
    /\ flow = "full"
    /\ Returned
    /\ ~ret.success
    /\ lastStep.exc
    /\ Len(jiraCalls) = 1
    /\ Len(alerts) = 1

\* C5: at most one ticket is created per run, and from its creation on
\* ticket_jira holds that ticket's key.
TicketsCreated == {i \in 1..Len(jiraCalls) : jiraCalls[i].ticket_key # NoTicket}

C5_OneTicketPerRun ==
    /\ Cardinality(TicketsCreated) <= 1
    /\ \A i \in TicketsCreated : ticket_jira = jiraCalls[i].ticket_key

C5_Witness ==
    /\ flow = "send"
    /\ TicketsCreated # {}
    /\ ticket_jira = "DDF-2"
    /\ escalations[1].ticket_antes = "DDF-1"

\* C6: every run method ends by returning a (success, message) pair; no
\* exception leaves run_full, run_send_only or run_validation_only.
C6_RunAlwaysReturns ==
    pc = "done" => (ret # NoRet /\ raised = NoExc)

\* C7: no invocation of _handle_error lets an exception out, whatever the
\* ticket creation and the alert mail do.
C7_HandleErrorNeverRaises ==
    /\ \A i \in 1..Len(escalations) : ~escalations[i].raised
    /\ flow \in {"full", "send"} => raised = NoExc

C7_Witness ==
    /\ Len(escalations) = 1
    /\ jiraCalls[1].ticket_key = NoTicket
    /\ Returned
    /\ steps # <<>> /\ Last(steps).nombre = "4. Copiar a DEADWH"

\* C8: every invocation of _handle_error calls crear_ticket_error and then
\* enviar_alerta_error, once each; the alert carries the new ticket's key
\* when the creation succeeded, and no ticket when it failed and no ticket
\* was held on entry.
C8_TicketThenAlert ==
    /\ Len(jiraCalls) = Len(escalations)
    /\ Len(alerts) = Len(escalations)
    /\ \A i \in 1..Len(escalations) :
        /\ escalations[i].trace = <<"crear_ticket_error", "enviar_alerta_error">>
        /\ jiraCalls[i].ticket_key # NoTicket =>
               alerts[i].ticket = jiraCalls[i].ticket_key
        /\ (jiraCalls[i].ticket_key = NoTicket /\ escalations[i].ticket_antes = NoTicket) =>
               alerts[i].ticket = NoTicket

C8_Witness ==
    /\ Len(escalations) = 1
    /\ jiraCalls[1].ticket_key = NoTicket
    /\ escalations[1].ticket_antes = NoTicket
    /\ Len(alerts) = 1
    /\ alerts[1].ticket = NoTicket
    /\ flow = "full"

\* C9: in run_full, when the reconciliation query reported no differences,
\* steps 2.1 and 2.2 are absent from the step list and the step recorded
\* right after the reconcile step is the render step (3); the reconcile step
\* stays last only when the observer raised on it.
C9_NoDifferencesSkipsCorrection ==
    flow = "full" =>
        \A i \in Indices(Inventario) :
            steps[i].mensaje = <<"No hay diferencias contra el origen">> =>
                /\ Indices("2.1 Ejecutar Jobs Correctivos") = {}
                /\ Indices("2.2 Actualizar Cubo") = {}
                /\ Len(steps) > i => steps[i + 1].nombre = "3. Descargar PDFs"
                /\ (Len(steps) = i /\ pc = "done") => lastStep.exc

C9_Witness ==
    /\ flow = "full"
    /\ \E i \in Indices(Inventario) :
        /\ steps[i].mensaje = <<"No hay diferencias contra el origen">>
        /\ Len(steps) > i
        /\ steps[i + 1].nombre = "3. Descargar PDFs"

\* C10: _ejecutar_jobs_correctivos calls execute_job once for every
\* non-empty job reference of every action, also after a failed job; its
\* result is a failure exactly when some job failed, and then the message
\* contains "<job>: <message>" of every failed job.
AllRefs(acciones) ==
    [k \in 1..(2 * Len(acciones)) |->
        IF k % 2 = 1 THEN acciones[(k + 1) \div 2].Accion1
        ELSE acciones[k \div 2].Accion2]

Count(seq, v) == Cardinality({k \in 1..Len(seq) : seq[k] = v})

CorrectiveCalls ==
    SelectSeq(jobLog, LAMBDA c : c.job # "BI Inventario Chatarra 5:15 am")

C10_AllJobsRun ==
    flow = "full" =>
        \A i \in Indices("2.1 Ejecutar Jobs Correctivos") :
            LET refs == AllRefs(steps[i - 1].detalles.acciones)
                names == [k \in 1..Len(CorrectiveCalls) |-> CorrectiveCalls[k].job]
                failed == {k \in 1..Len(CorrectiveCalls) : ~CorrectiveCalls[k].success}
            IN /\ \A job \in {"JobA", "JobB"} : Count(names, job) = Count(refs, job)
               /\ Len(names) = Len(refs) - Count(refs, "")
               /\ steps[i].success = (failed = {})
               /\ \A k \in failed :
                      ContainsText(steps[i].mensaje,
                                   <<CorrectiveCalls[k].job, ": ">> \o CorrectiveCalls[k].msg)

C10_Witness ==
    /\ flow = "full"
    /\ Indices("2.1 Ejecutar Jobs Correctivos") # {}
    /\ Len(CorrectiveCalls) >= 2
    /\ ~CorrectiveCalls[1].success
    /\ CorrectiveCalls[Len(CorrectiveCalls)].success
    /\ ~Last(steps).success

\* C11: in run_full, once the reconcile step reported differences, the step
\* recorded right after it is the corrective-jobs step and the step list
\* holds exactly one such entry, however many jobs were executed; when some
\* corrective job failed, that entry has success = false and a message that
\* names a failed job, the run has returned failure, and no cube-refresh
\* step is in the list.
Jobs == "2.1 Ejecutar Jobs Correctivos"

Cubo == "2.2 Actualizar Cubo"

FailedCalls == {k \in 1..Len(CorrectiveCalls) : ~CorrectiveCalls[k].success}

C11_OneJobsEntry ==
    flow = "full" =>
        /\ Cardinality(Indices(Jobs)) <= 1
        /\ \A i \in Indices(Inventario) :
              EntraCorrectivos(steps[i]) =>
                  /\ Len(steps) > i => (steps[i + 1].nombre = Jobs /\ Indices(Jobs) = {i + 1})
                  /\ Len(steps) = i => (pc = "f21" \/ (pc = "done" /\ lastStep.exc))
        /\ FailedCalls # {} =>
              /\ Cardinality(Indices(Jobs)) = 1
              /\ \A j \in Indices(Jobs) :
                    /\ ~steps[j].success
                    /\ j = Len(steps)
                    /\ \E k \in FailedCalls :
                          ContainsText(steps[j].mensaje, <<CorrectiveCalls[k].job>>)
              /\ Returned
              /\ ret.success = FALSE
              /\ Indices(Cubo) = {}

C11_Witness ==
    /\ flow = "full"
    /\ Returned
    /\ Len(CorrectiveCalls) >= 3
    /\ FailedCalls # {}
    /\ CorrectiveCalls[1].success
    /\ Cardinality(Indices(Jobs)) = 1
    /\ Last(steps).nombre = Jobs

\* C12: run_validation_only never escalates: while it runs and after it has
\* ended (fresh extract, failed refresh, failed recheck, a raising
\* capability or observer) no ticket creation was attempted, no error alert
\* and no summary mail was sent, and no step of it changes ticket_jira.
C12_ValidationNeverEscalates ==
    /\ [](flow = "validate" =>
            /\ jiraCalls = <<>>
            /\ alerts = <<>>
            /\ escalations = <<>>
            /\ summaries = <<>>)
    /\ [][flow' = "validate" => ticket_jira' = ticket_jira]_vars

C12_Witness ==
    /\ flow = "validate"
    /\ pc = "done"
    /\ Len(steps) = 2
    /\ ~Last(steps).success
    /\ lastStep.op.exc
    /\ ticket_jira = "DDF-1"

\* C13: the step list of run_validation_only is a prefix of (check, refresh,
\* recheck); a refresh step is recorded only after a failed first check and
\* a recheck only after a successful refresh.  When the run has returned
\* (which it does unless the observer raised on a step),
\* the list is (check), (check, refresh) or (check, refresh, recheck), the
\* refresh step is recorded iff the first check failed, the recheck iff the
\* refresh succeeded, and the returned (success, message) are those of the
\* last recorded step; a valid first check returns success with one step.
ValNames == <<"Validar Extracto Tableau", "Refresh Extracto", "Revalidar Extracto">>

C13_ValidationShape ==
    flow = "validate" =>
        /\ Len(steps) <= 3
        /\ \A i \in 1..Len(steps) : steps[i].nombre = ValNames[i]
        /\ Len(steps) >= 2 => ~steps[1].success
        /\ Len(steps) >= 3 => steps[2].success
        /\ Returned =>
              /\ Len(steps) >= 1
              /\ (Len(steps) >= 2) <=> ~steps[1].success
              /\ (Len(steps) >= 3) <=> (Len(steps) >= 2 /\ steps[2].success)
              /\ ret.success = Last(steps).success
              /\ ret.mensaje = Last(steps).mensaje
              /\ steps[1].success => (ret.success /\ Len(steps) = 1)

C13_Witness ==
    /\ flow = "validate"
    /\ Returned
    /\ Len(steps) = 3
    /\ ~ret.success
    /\ ret.mensaje = <<"Extracto desactualizado">>

\* C14: in run_full, a refresh step (1.1) is recorded only after a failed
\* first check; when it is recorded with success = false the run has
\* returned failure with a step list of exactly these two entries, after
\* one ticket-creation attempt and one error alert for "Refresh de
\* Extracto" (for "Error Inesperado" when the observer raised on the step);
\* no revalidate, reconcile or later step was run.
C14_RefreshFailureStops ==
    flow = "full" =>
        \A i \in Indices("1.1 Refresh Extracto") :
            /\ i = 2
            /\ steps[1].nombre = "1. Validar Extracto Tableau"
            /\ ~steps[1].success
            /\ ~steps[i].success =>
                  /\ Len(steps) = 2
                  /\ Returned
                  /\ ret.success = FALSE
                  /\ Len(jiraCalls) = 1
                  /\ Len(alerts) = 1
                  /\ Len(escalations) = 1
                  /\ escalations[1].error =
                         (IF lastStep.exc THEN ObserverError ELSE steps[i].mensaje)
                  /\ escalations[1].paso_fallido =
                         (IF lastStep.exc THEN "Error Inesperado" ELSE "Refresh de Extracto")
                  /\ ~lastStep.exc =>
                         ret.mensaje = <<"Error en extracto: ">> \o steps[i].mensaje
                  /\ jobLog = <<>>
                  /\ summaries = <<>>

C14_Witness ==
    /\ flow = "full"
    /\ Returned
    /\ Len(steps) = 2
    /\ steps[2].nombre = "1.1 Refresh Extracto"
    /\ steps[2].mensaje = <<"Timeout despues de ", "300", "s">>
    /\ ~lastStep.exc
    /\ Len(jiraCalls) = 1
    /\ Len(alerts) = 1

\* C15: in run_full, when the send step (5) succeeded and the observer did
\* not raise on it (every gate passed), the run returns success = true;
\* no summary exists before the send step is over, and the finished run
\* has sent exactly one summary, with exito = true and one row per recorded
\* step, in order, carrying the step's name, verdict and message; no
\* ticket creation and no error alert occurred.  A run_full that returned
\* success is such a run, and one that did not sent no summary.
Enviar == "5. Enviar Correos"

SendPassed ==
    /\ steps # <<>>
    /\ Last(steps).nombre = Enviar
    /\ Last(steps).success
    /\ ~lastStep.exc

C15_SuccessSummary ==
    flow = "full" =>
        /\ (pc = "done" /\ SendPassed) =>
              /\ Returned
              /\ ret.success = TRUE
              /\ Len(summaries) = 1
              /\ summaries[1].exito = TRUE
              /\ Len(summaries[1].pasos) = Len(steps)
              /\ \A i \in 1..Len(steps) :
                    /\ summaries[1].pasos[i].nombre = steps[i].nombre
                    /\ summaries[1].pasos[i].success = steps[i].success
                    /\ summaries[1].pasos[i].estado = steps[i].mensaje
              /\ jiraCalls = <<>>
              /\ alerts = <<>>
        /\ (Returned /\ ret.success) => SendPassed
        /\ ~(pc = "done" /\ SendPassed) => summaries = <<>>

C15_Witness ==
    /\ flow = "full"
    /\ Returned
    /\ ret.success
    /\ Len(steps) = 9
    /\ Len(summaries) = 1
    /\ summaries[1].pasos[9].nombre = Enviar

\* C16: run_send_only records exactly one step, "Enviar Correos".  With the
\* observer returning normally: when the step failed, the run made one
\* ticket-creation attempt and sent one alert for "Envio de Correos",
\* sent no summary, and returned failure with the step's message; when it
\* succeeded, the run sent one summary with exito = true and the step list
\* as its rows, returned success, and no escalation occurred.
C16_SendOnly ==
    flow = "send" =>
        /\ Len(steps) <= 1
        /\ \A i \in 1..Len(steps) : steps[i].nombre = "Enviar Correos"
        /\ pc \in {"s2", "done"} => Len(steps) = 1
        /\ pc = "s2" => (steps[1].success /\ ~lastStep.exc)
        /\ (pc = "done" /\ ~lastStep.exc) =>
              /\ Returned
              /\ IF ~steps[1].success
                 THEN /\ ret.success = FALSE
                      /\ ret.mensaje = steps[1].mensaje
                      /\ Len(jiraCalls) = 1
                      /\ Len(alerts) = 1
                      /\ Len(escalations) = 1
                      /\ escalations[1].paso_fallido = "Envio de Correos"
                      /\ escalations[1].error = steps[1].mensaje
                      /\ summaries = <<>>
                 ELSE /\ ret.success = TRUE
                      /\ Len(summaries) = 1
                      /\ summaries[1].exito = TRUE
                      /\ Len(summaries[1].pasos) = 1
                      /\ summaries[1].pasos[1].nombre = steps[1].nombre
                      /\ summaries[1].pasos[1].success = steps[1].success
                      /\ summaries[1].pasos[1].estado = steps[1].mensaje
                      /\ jiraCalls = <<>>
                      /\ alerts = <<>>
                      /\ escalations = <<>>

C16_Witness ==
    /\ flow = "send"
    /\ Returned
    /\ ~lastStep.exc
    /\ ~steps[1].success
    /\ ret.mensaje = <<"sql error">>
    /\ Len(alerts) = 1

\* C17: in run_full the recorded steps follow the pipeline order check (1),
\* refresh (1.1), revalidate (1.2), reconcile (2), corrective jobs (2.1),
\* cube refresh (2.2), render (3), distribute (4), send (5), each at most
\* once and the check first; 1.1 comes right after a failed check, 1.2
\* right after a successful 1.1, 2.1 right after 2, 2.2 right after 2.1; the
\* reconcile step is recorded only after a valid first check or after a
\* successful refresh and a valid recheck; render only after 2 or 2.2;
\* distribute only right after a successful render, and send only right
\* after a successful distribute.
Orden ==
    <<"1. Validar Extracto Tableau", "1.1 Refresh Extracto", "1.2 Revalidar Extracto",
      "2. Validar Inventario SQL", "2.1 Ejecutar Jobs Correctivos", "2.2 Actualizar Cubo",
      "3. Descargar PDFs", "4. Copiar a DEADWH", "5. Enviar Correos">>

Pos(nombre) == CHOOSE k \in 1..Len(Orden) : Orden[k] = nombre

\* the step before entry i has the given name
Sigue(i, nombre) == i > 1 /\ steps[i - 1].nombre = nombre

C17_PipelineOrder ==
    flow = "full" =>
        /\ \A i \in 1..Len(steps) : \E k \in 1..Len(Orden) : Orden[k] = steps[i].nombre
        /\ \A i, j \in 1..Len(steps) :
              i < j => Pos(steps[i].nombre) < Pos(steps[j].nombre)
        /\ steps # <<>> => steps[1].nombre = Orden[1]
        /\ \A i \in Indices(Orden[2]) : Sigue(i, Orden[1]) /\ ~steps[i - 1].success
        /\ \A i \in Indices(Orden[3]) : Sigue(i, Orden[2]) /\ steps[i - 1].success
        /\ \A i \in Indices(Orden[4]) :
              \/ i = 2 /\ steps[1].success
              \/ /\ i = 4
                 /\ ~steps[1].success
                 /\ steps[2].nombre = Orden[2] /\ steps[2].success
                 /\ steps[3].nombre = Orden[3] /\ steps[3].success
        /\ \A i \in Indices(Orden[5]) : Sigue(i, Orden[4])
        /\ \A i \in Indices(Orden[6]) : Sigue(i, Orden[5]) /\ steps[i - 1].success
        /\ \A i \in Indices(Orden[7]) : Sigue(i, Orden[4]) \/ Sigue(i, Orden[6])
        /\ \A i \in Indices(Orden[8]) : Sigue(i, Orden[7]) /\ steps[i - 1].success
        /\ \A i \in Indices(Orden[9]) : Sigue(i, Orden[8]) /\ steps[i - 1].success

C17_Witness ==
    /\ flow = "full"
    /\ pc = "done"
    /\ Len(steps) = 8
    /\ Last(steps).nombre = "4. Copiar a DEADWH"
    /\ ~Last(steps).success
    /\ ~steps[1].success
    /\ steps[5].nombre = "2.1 Ejecutar Jobs Correctivos"

\* C18: the corrective jobs are executed in the order of the action list
\* of the reconcile step, and within one action Accion1 before Accion2: the
\* sequence of executed job names equals the non-empty job references of
\* the actions read in that order; the cube job, when it runs, runs after
\* all of them.
JobNames == [k \in 1..Len(CorrectiveCalls) |-> CorrectiveCalls[k].job]

C18_JobsInOrder ==
    flow = "full" =>
        /\ \A i \in Indices(Jobs) :
              JobNames = SelectSeq(AllRefs(steps[i - 1].detalles.acciones),
                                   LAMBDA ref : ref # "")
        /\ Indices(Jobs) = {} => CorrectiveCalls = <<>>
        /\ \A k \in 1..Len(jobLog) :
              jobLog[k].job = "BI Inventario Chatarra 5:15 am" => k = Len(jobLog)

C18_Witness ==
    /\ flow = "full"
    /\ Len(CorrectiveCalls) = 3
    /\ JobNames = <<"JobB", "JobA", "JobB">>
    /\ Len(jobLog) = 4

\* C19: every report-server session a run opens is released: at any time
\* the sign-outs attempted are the successful sign-ins, less one exactly
\* while a signed-in client is inside its with-block; when run_full or
\* run_validation_only has ended (by a normal return, a return from inside
\* the with-block or an exception leaving it) no client is still connected
\* and one sign-out was attempted per successful sign-in; between the
\* with-blocks of run_full no session is open.
InWith == pc \in {"f11", "f12", "v11", "v12"}

C19_SessionsReleased ==
    /\ tableau.signOuts <= tableau.signIns
    /\ tableau.signIns <= tableau.signOuts + 1
    /\ tableau.connected <=> (tableau.signIns = tableau.signOuts + 1)
    /\ tableau.connected => InWith
    /\ (pc = "done" /\ flow \in {"full", "validate"}) =>
          /\ ~tableau.connected
          /\ tableau.signOuts = tableau.signIns

C19_Witness ==
    /\ flow = "validate"
    /\ pc = "done"
    /\ raised # NoExc
    /\ Len(steps) = 2
    /\ tableau.signIns = 1
    /\ tableau.signOuts = 1

\* C20: refresh_extracto always terminates.  It polls the job at most
\* ceil(max_wait_seconds / wait_interval) times; it returns at the first
\* poll that reports a terminal state, success for finish code 0 and
\* failure for 1 and 2; when no poll reported one it returns the timeout
\* failure after exactly that many polls; an error raised by the start of
\* the refresh or by a poll is returned as a failure: once the datasource
\* is found no step of the call raises, and the call returns.
Ceil(a, b) == (a + b - 1) \div b

Terminal(p) == ~p.raised /\ p.finish_code \in {0, 1, 2}

C20_Bounded ==
    LET n == Len(refresh.polls)
        most == Ceil(refresh.max_wait_seconds, wait_interval)
        out == refresh.out
    IN /\ n <= most
       /\ refresh.total_waited = n * wait_interval
       /\ \A k \in 1..(n - 1) :
             ~refresh.polls[k].raised /\ ~Terminal(refresh.polls[k])
       /\ refresh.pc = "loop" =>
             (n > 0 => ~refresh.polls[n].raised /\ ~Terminal(refresh.polls[n]))
       /\ refresh.pc = "raised" => n = 0
       /\ refresh.pc = "returned" =>
             /\ ~out.exc
             /\ IF n > 0 /\ Terminal(refresh.polls[n])
                THEN LET code == refresh.polls[n].finish_code
                     IN /\ out.val[1] = (code = 0)
                        /\ code = 0 => out.val[2] = <<"Refresh completado">>
                        /\ code = 1 => out.val[2] = <<"Refresh fallo: ", "notes">>
                        /\ code = 2 => out.val[2] = <<"Refresh cancelado">>
                ELSE /\ out.val[1] = FALSE
                     /\ (n > 0 /\ ~refresh.polls[n].raised) =>
                            (n = most /\ out.val[2] = TimeoutMsg(refresh.max_wait_seconds))
                     /\ out.val[2] = TimeoutMsg(refresh.max_wait_seconds) => n = most

C20_RefreshTerminates ==
    /\ []C20_Bounded
    /\ [][refresh.pc \in {"start", "loop"} => refresh'.pc \in {"loop", "returned"}]_vars
    /\ (refresh.pc \in {"start", "loop"}) ~> (refresh.pc = "returned")

C20_Witness ==
    /\ refresh.pc = "returned"
    /\ refresh.max_wait_seconds = 25
    /\ Len(refresh.polls) = 3
    /\ refresh.out.val = <<FALSE, TimeoutMsg(25)>>

\* C21: the exit code of a process is 0, 1 or 130; it is 0 exactly when
\* the selected flow returned success and the process was not interrupted;
\* it is 1 when the flow returned failure, when the configuration was
\* rejected, or when an exception left the flow; it is 130 exactly when the
\* user interrupted the process during its run.
C21_ExitCode ==
    cli.pc = "exited" =>
        /\ cli.code \in {0, 1, 130}
        /\ cli.code = 130 <=> cli.interrupted
        /\ cli.code = 0 <=> (~cli.interrupted /\ Returned /\ ret.success)
        /\ (~cli.interrupted /\ Returned /\ ~ret.success) => cli.code = 1
        /\ cli.errors # <<>> => cli.code = 1
        /\ (~cli.interrupted /\ raised # NoExc) => cli.code = 1

C21_Witness ==
    /\ cli.pc = "exited"
    /\ cli.code = 1
    /\ cli.action = "validate"
    /\ raised = ObserverError

\* C22: the configuration is validated before any run: a process whose
\* configuration lacks a required credential never constructs the workflow
\* and exits with code 1; no step was executed or recorded, no session was
\* opened, no job was run, and no ticket, alert or summary was attempted.
Required == {"TABLEAU_USER", "TABLEAU_PASSWORD", "SQL_INFOCENTRAL_PWD", "SQL_DEADWH_PWD"}

C22_ConfigFirst ==
    (cli.pc \notin {"none", "main"} /\ Required \ cli.config # {}) =>
        /\ cli.pc = "exited"
        /\ cli.code = 1
        /\ Len(cli.errors) = Cardinality(Required \ cli.config)
        /\ pc = "idle"
        /\ flow = "none"
        /\ steps = <<>>
        /\ observed = <<>>
        /\ jobLog = <<>>
        /\ tableau.signIns = 0
        /\ jiraCalls = <<>>
        /\ alerts = <<>>
        /\ escalations = <<>>
        /\ summaries = <<>>

C22_Witness ==
    /\ cli.pc = "exited"
    /\ cli.config = {"TABLEAU_USER", "TABLEAU_PASSWORD", "SQL_INFOCENTRAL_PWD",
                     "SQL_CUBOSOFI_PWD"}
    /\ cli.errors = <<<<"SQL_DEADWH_PWD", " no configurado">>>>
    /\ issues = 1

\* C23: within one run the step list is append-only: a step of a run that
\* calls _execute_step extends the list by exactly one entry, at its end,
\* which is the result of that call; every other step of a running run
\* leaves the list as it is; the entries recorded before stay where they
\* were, unchanged.  The list is emptied only when a run method starts.
StepLabels ==
    {"f1", "f11", "f12", "f2", "f21", "f22", "f3", "f4", "f5", "s1", "v1", "v11", "v12"}

C23_AppendOnly ==
    [][/\ pc \in StepLabels =>
            /\ Len(steps') = Len(steps) + 1
            /\ SubSeq(steps', 1, Len(steps)) = steps
            /\ Last(steps') = lastStep'.result
       /\ pc \in {"f6", "s2"} => steps' = steps
       /\ pc \in {"idle", "done"} => steps' = <<>>]_vars

C23_Witness ==
    /\ flow = "full"
    /\ pc = "f5"
    /\ Len(steps) = 8
    /\ ~steps[1].success
    /\ ~steps[4].success

\* C24: the observer is invoked once per executed step, right after the
\* result is appended and before the next step starts, with the result
\* just appended: between any two steps of a run the sequence of results
\* handed to the observer equals the step list (an invocation that raises
\* has received its result too).
C24_ObserverSeesEveryStep ==
    /\ observed = steps
    /\ (pc # "idle" /\ steps # <<>>) => lastStep.result = Last(observed)

C24_Witness ==
    /\ flow = "full"
    /\ Len(observed) = 9
    /\ observed[9].nombre = "5. Enviar Correos"
    /\ ~observed[1].success
    /\ observed[9].success

\* C25: the ticket held by the orchestrator when a run has ended (the one
\* get_summary reports) and the ticket attached to every error alert of a
\* run identify a ticket created during that same run, or are absent.
CreatedThisRun == {jiraCalls[i].ticket_key : i \in TicketsCreated}

C25_TicketOfThisRun ==
    /\ \A i \in 1..Len(alerts) : alerts[i].ticket \in CreatedThisRun \cup {NoTicket}
    /\ pc = "done" => ticket_jira \in CreatedThisRun \cup {NoTicket}

\* C26: step names are unique within a run: in every state of the three
\* flows no two entries of the step list carry the same name.
StepNames == {steps[i].nombre : i \in 1..Len(steps)}

C26_UniqueNames ==
    \A i, j \in 1..Len(steps) : steps[i].nombre = steps[j].nombre => i = j

C26_Witness ==
    /\ pc = "done"
    /\ Cardinality(StepNames) = 9
    /\ "1.2 Revalidar Extracto" \in StepNames
    /\ "2.2 Actualizar Cubo" \in StepNames

\* ------------------------------------------------ render and distribute
\* the step just recorded is the render step / the distribute step
JustRendered == lastStep # NoStep /\ lastStep.result.nombre = "3. Descargar PDFs"
JustCopied == lastStep # NoStep /\ lastStep.result.nombre = "4. Copiar a DEADWH"

\* descargar_todos_reportes was called by the render step just recorded
RenderCalled == JustRendered /\ fileLog.calls # <<>>

Failed(call) == ~call.r.exc /\ ~call.r.val[1]
Rendered(call) == ~call.r.exc /\ call.r.val[1]

FailedCalls27 == {k \in 1..Len(fileLog.calls) : Failed(fileLog.calls[k])}

\* the run escalated once and stopped before distribute and send
EscalatedAndStopped ==
    /\ pc = "done"
    /\ Len(jiraCalls) = 1 /\ Len(alerts) = 1
    /\ \A i \in 1..Len(steps) :
          steps[i].nombre \notin {"4. Copiar a DEADWH", "5. Enviar Correos"}

\* every selected document was requested, in the order of the table
AllAttempted ==
    LET rows == SelectedRows(fileLog.today)
    IN /\ Len(fileLog.calls) = Len(rows)
       /\ \A k \in 1..Len(rows) : fileLog.calls[k].name = rows[k].name

\* failure is returned exactly when a document failed, with every
\* document's error in the message and the rendered documents in the list
FailureIffDocumentFailed ==
    /\ ~lastStep.op.exc
    /\ ~lastStep.op.val[1] <=> FailedCalls27 # {}
    /\ ~lastStep.op.val[1] =>
          /\ \A k \in FailedCalls27 :
                ContainsText(lastStep.op.val[2],
                             <<fileLog.calls[k].name, ": ">> \o fileLog.calls[k].r.val[2])
          /\ \A k \in 1..Len(fileLog.calls) :
                Rendered(fileLog.calls[k]) <=>
                    \E j \in 1..Len(lastStep.op.val[3].archivos) :
                        lastStep.op.val[3].archivos[j]
                            = <<"pdf_source", fileLog.calls[k].alias, ".pdf">>

\* the claim as stated: whenever rendering is called it attempts every
\* selected document, returns failure exactly when a document failed, and
\* a failure makes run_full escalate and stop
C27_RenderAttemptsAll_AsStated ==
    RenderCalled =>
        /\ AllAttempted
        /\ FailureIffDocumentFailed
        /\ ~lastStep.result.success => EscalatedAndStopped

\* C27: when the report-server session is connected, rendering attempts
\* every selected document even after an earlier one failed, and returns
\* failure if and only if at least one document failed, with a message that
\* contains every per-document error and with the list of the documents
\* that did render; when the session is not connected the request for the
\* first selected document raises, no other document is attempted and the
\* step is recorded as failed with that error.  In both cases a failed
\* render step makes run_full escalate once and run neither distribute nor
\* send.
C27_RenderAttemptsAll ==
    RenderCalled =>
        /\ IF fileLog.calls[1].r.exc
           THEN /\ Len(fileLog.calls) = 1
                /\ fileLog.calls[1].name = SelectedRows(fileLog.today)[1].name
                /\ lastStep.op = Raise(NotConnectedError)
                /\ ~lastStep.result.success
                /\ lastStep.result.mensaje = NotConnectedError
           ELSE AllAttempted /\ FailureIffDocumentFailed
        /\ ~lastStep.result.success => EscalatedAndStopped

C27_Witness ==
    /\ RenderCalled
    /\ Len(fileLog.calls) = 5
    /\ Failed(fileLog.calls[1])
    /\ Rendered(fileLog.calls[2])
    /\ Failed(fileLog.calls[4])
    /\ Rendered(fileLog.calls[5])
    /\ fileLog.today = [weekday |-> 0, day |-> 1]
    /\ Returned

\* C28: after a distribute step that succeeded, the plain files of the
\* destination directory are exactly the files that were in the staging
\* directory (same names, same contents): every plain file found in the
\* destination has been removed and every staging file has been copied.
C28_DestEqualsStaging ==
    (JustCopied /\ lastStep.result.success) =>
        /\ files.dest.files = fileLog.source0.files
        /\ files.staging = fileLog.source0

\* C29: _copiar_archivos never raises: it returns a triple, and a missing
\* destination, a failed removal or a failed copy is returned as a failure
\* with empty details; run_full then escalates once and stops without
\* running send.  When the destination does not exist, both directories
\* are left exactly as they were found; the staging directory is never
\* changed by the step.
C29_CopyNeverRaises ==
    JustCopied =>
        /\ ~lastStep.op.exc
        /\ Len(lastStep.op.val) = 3
        /\ files.staging = fileLog.source0
        /\ ~fileLog.dest0.exists =>
              /\ lastStep.op.val
                    = <<FALSE, <<"Carpeta destino no accesible: ", "dest">>, EmptyDict>>
              /\ files.dest = fileLog.dest0
        /\ ~lastStep.op.val[1] =>
              /\ lastStep.op.val[3] = EmptyDict
              /\ ~lastStep.result.success
              /\ pc = "done"
              /\ Len(jiraCalls) = 1 /\ Len(alerts) = 1
              /\ \A i \in 1..Len(steps) : steps[i].nombre # "5. Enviar Correos"
              /\ Returned => ~ret.success

C29_Witness ==
    /\ JustCopied
    /\ fileLog.dest0 = NoDir
    /\ Cardinality(fileLog.source0.files) = 5
    /\ files.dest = NoDir
    /\ Returned
    /\ ~ret.success
    /\ ~lastStep.exc

\* C30: the render step empties the staging directory, or creates it when
\* absent, before any document is requested: once a document was requested
\* the directory holds nothing but documents written by this run, and after
\* a render step that succeeded it holds exactly the documents generated in
\* this run, one per selected row, and no file or directory found there
\* before.
WrittenThisRun ==
    {File(PdfName(fileLog.calls[k].alias), <<fileLog.calls[k].name, "pdf">>) :
        k \in {j \in 1..Len(fileLog.calls) : Rendered(fileLog.calls[j])}}

C30_StagingIsThisRun ==
    JustRendered =>
        /\ fileLog.calls # <<>> =>
              /\ files.staging.exists
              /\ files.staging.dirs = {}
              /\ \A f \in files.staging.files :
                    /\ f.content[1] # "anterior"
                    /\ \E k \in 1..Len(fileLog.calls) :
                          /\ f.name = PdfName(fileLog.calls[k].alias)
                          /\ f.content[1] = fileLog.calls[k].name
        /\ lastStep.result.success =>
              /\ AllAttempted
              /\ files.staging.files = WrittenThisRun
              /\ Cardinality(files.staging.files) = Len(fileLog.calls)

C30_Witness ==
    /\ JustRendered
    /\ lastStep.result.success
    /\ fileLog.staging0.files = {OldDoc, OldOther}
    /\ Cardinality(files.staging.files) = 5
    /\ OldOther \notin files.staging.files
    /\ pc = "f4"

\* C31: on every date the table selects exactly five documents with
\* pairwise distinct output file names: the two unconditional reports and
\* one variant of each of the three pairs, the start-of-week variants
\* exactly on Monday and the first-of-month variant exactly on day 1.
SelectedNames == {select.selected[k].name : k \in 1..Len(select.selected)}

\* of the pair exactly one is selected, and it is the second iff cond
OneOf(first, second, cond) ==
    /\ (second \in SelectedNames) <=> cond
    /\ (first \in SelectedNames) <=> ~cond

C31_FivePerDate ==
    select.pc = "selected" =>
        /\ Len(select.selected) = 5
        /\ \A i, j \in 1..Len(select.selected) :
              PdfName(select.selected[i].alias) = PdfName(select.selected[j].alias)
                  => i = j
        /\ "Reporte Inventario Diario" \in SelectedNames
        /\ "Reporte de Compras e Inventario por Tipo de Material" \in SelectedNames
        /\ OneOf("Reporte Costo Puesto en Patios",
                 "Reporte Costo Puesto en Patios (Inicio Semana)",
                 select.today.weekday = 0)
        /\ OneOf("Reporte Compra Chatarra Prom Dia Habil",
                 "Reporte Compra Chatarra Prom Dia Habil Dia Primero",
                 select.today.day = 1)
        /\ OneOf("Reporte NUEVO Patios - Compras Nacionales + Importaciones",
                 "Reporte NUEVO Patios - Compras Nacionales + Importaciones_InicioSem",
                 select.today.weekday = 0)

C31_Witness ==
    /\ select.pc = "selected"
    /\ select.today = [weekday |-> 0, day |-> 1]
    /\ select.selected[1].name = "Reporte Costo Puesto en Patios (Inicio Semana)"
    /\ select.selected[3].name = "Reporte Compra Chatarra Prom Dia Habil Dia Primero"

\* C32: validar_extracto reports the extract valid if and only if a
\* datasource is found, it has an extract and a last-updated time, and its
\* age is not greater than the maximum age in force (the configured one
\* when the call passes none, as every call of the workflow does); an age
\* equal to the maximum is valid; age 2h with maximum 24h is valid and age
\* 30h with maximum 24h is stale.
ReportsValid == ~extracto.out.exc /\ extracto.out.val[1]

Found == find_datasource(extracto.connected, extracto.datasources)

MaxInForce ==
    IF extracto.max_age_hours = 0 THEN extracto.max_extract_age_hours
    ELSE extracto.max_age_hours

AgeOfFound == extracto.now_utc - Found.val.updated_at.t

C32_ValidIffFresh ==
    extracto.pc = "returned" =>
        /\ ReportsValid <=>
              /\ ~Found.exc
              /\ Found.val # NoDatasource
              /\ Found.val.has_extracts
              /\ Found.val.updated_at # NoTime
              /\ AgeOfFound <= MaxInForce * SecondsPerHour
        /\ ReportsValid => extracto.out.val[3] = Found.val.updated_at
        /\ (/\ extracto.connected
            /\ Len(extracto.datasources) = 1
            /\ extracto.datasources[1].match = "exact"
            /\ extracto.datasources[1].has_extracts
            /\ extracto.datasources[1].updated_at # NoTime
            /\ MaxInForce = 24)
           => /\ AgeOfFound = 2 * SecondsPerHour => ReportsValid
              /\ AgeOfFound = 30 * SecondsPerHour => ~ReportsValid

C32_Witness ==
    /\ extracto.pc = "returned"
    /\ ReportsValid
    /\ Len(extracto.datasources) = 2
    /\ ~extracto.datasources[1].has_extracts
    /\ extracto.datasources[2].match = "partial"
    /\ AgeOfFound = 24 * SecondsPerHour
    /\ extracto.max_age_hours = 0
    /\ extracto.max_extract_age_hours = 24
    /\ extracto.out.val[2] = <<"Extracto válido: ", "24.00", "h">>

\* C33: execute_job with wait_for_completion always terminates.  It polls
\* at most ceil(max_wait / check_interval) times; it returns success at the
\* first poll that reports the job Completed and keeps polling while the
\* status is Running, unknown or unavailable; when no poll reported
\* Completed it returns the timeout failure after exactly that many polls;
\* an error while starting or polling the job is returned as a failure:
\* no step of the call raises, and the call returns.
C33_Bounded ==
    LET n == Len(jobCall.polls)
        most == Ceil(jobCall.max_wait, check_interval)
        out == jobCall.out
    IN /\ n <= most
       /\ jobCall.total_waited = n * check_interval
       /\ \A k \in 1..(n - 1) : jobCall.polls[k] \in {"Running", "Unknown", "empty"}
       /\ jobCall.pc = "loop" =>
             /\ jobCall.wait_for_completion
             /\ n > 0 => jobCall.polls[n] \in {"Running", "Unknown", "empty"}
       /\ jobCall.pc = "returned" =>
             /\ ~out.exc
             /\ out.val[1] <=>
                   \/ ~jobCall.wait_for_completion /\ out.val[2] = <<"Job iniciado (sin esperar)">>
                   \/ n > 0 /\ jobCall.polls[n] = "Completed"
             /\ (n > 0 /\ jobCall.polls[n] = "Completed") =>
                   out.val = <<TRUE, <<"Job completado exitosamente">>>>
             /\ (n > 0 /\ jobCall.polls[n] \in {"Running", "Unknown", "empty"}) =>
                   /\ n = most
                   /\ out.val = <<FALSE, <<"Timeout esperando job despues de ",
                                           ToString(jobCall.max_wait), "s">>>>
             /\ out.val[2][1] = "Timeout esperando job despues de " =>
                   n = most /\ jobCall.wait_for_completion

C33_JobTerminates ==
    /\ []C33_Bounded
    /\ [][jobCall.pc = "loop" => jobCall'.pc \in {"loop", "returned"}]_vars
    /\ (jobCall.pc = "loop") ~> (jobCall.pc = "returned")

C33_Witness ==
    /\ jobCall.pc = "returned"
    /\ jobCall.max_wait = 25
    /\ jobCall.polls = <<"Running", "empty", "Unknown">>
    /\ jobCall.out.val[1] = FALSE

\* C34: when run_full returned success, the last recorded step is the send
\* step and it succeeded, and every recorded step other than the first
\* freshness check (1) and the reconcile step (2) succeeded.
FirstChecks == {"1. Validar Extracto Tableau", "2. Validar Inventario SQL"}

C34_SuccessMeansGatesPassed ==
    (flow = "full" /\ Returned /\ ret.success) =>
        /\ steps # <<>>
        /\ Last(steps).nombre = "5. Enviar Correos"
        /\ Last(steps).success
        /\ \A i \in 1..Len(steps) :
              steps[i].nombre \notin FirstChecks => steps[i].success

C34_Witness ==
    /\ flow = "full"
    /\ Returned
    /\ ret.success
    /\ \A n \in FirstChecks : \E i \in 1..Len(steps) :
          steps[i].nombre = n /\ ~steps[i].success
    /\ Len(steps) = 9

\* C35: when every gate of run_full succeeded, the run returns success
\* and neither a ticket creation nor an error alert is triggered, whether
\* the success summary was sent or its sending failed.
AllGatesPassed ==
    /\ flow = "full"
    /\ steps # <<>>
    /\ Last(steps).nombre = "5. Enviar Correos"
    /\ Last(steps).success
    /\ ~lastStep.exc

C35_SummaryOutcomeIgnored ==
    /\ (AllGatesPassed /\ pc = "done") =>
          /\ Returned
          /\ ret.success
          /\ Len(summaries) = 1
    /\ AllGatesPassed => (jiraCalls = <<>> /\ alerts = <<>> /\ escalations = <<>>)

C35_Witness ==
    /\ AllGatesPassed
    /\ Returned
    /\ ret.success
    /\ Len(summaries) = 1
    /\ ~summaries[1].r.exc
    /\ ~summaries[1].r.val[1]

\* C36: when the sign-in at the start of run_full fails, the freshness
\* check and the refresh are each recorded as failed steps and are the
\* only steps, escalation occurs once, the run returns failure, and no
\* sign-out is attempted.
SignInFailed ==
    /\ flow = "full"
    /\ steps # <<>>
    /\ tableau.signIns = 0

C36_SignInFailure ==
    SignInFailed =>
        /\ tableau.signOuts = 0
        /\ ~tableau.connected
        /\ Len(steps) <= 2
        /\ steps[1].nombre = "1. Validar Extracto Tableau"
        /\ ~steps[1].success
        /\ Len(steps) = 2 =>
              /\ steps[2].nombre = "1.1 Refresh Extracto"
              /\ ~steps[2].success
        /\ Len(escalations) <= 1
        /\ (pc = "done" /\ ~lastStep.exc) =>
              /\ Returned
              /\ ~ret.success
              /\ Len(steps) = 2
              /\ Len(escalations) = 1
              /\ Len(jiraCalls) = 1
              /\ Len(alerts) = 1
              /\ escalations[1].paso_fallido = "Refresh de Extracto"

C36_Witness ==
    /\ SignInFailed
    /\ Returned
    /\ ~lastStep.exc
    /\ Len(steps) = 2
    /\ Len(escalations) = 1

\* C37: a run of run_full or run_validation_only records at most one
\* refresh step, and a failed refresh step is the last step of its run:
\* the run is over, with no second refresh and no revalidation after it.
RefreshNames == {"1.1 Refresh Extracto", "Refresh Extracto"}

RefreshSteps == {i \in 1..Len(steps) : steps[i].nombre \in RefreshNames}

C37_RefreshAtMostOnce ==
    flow \in {"full", "validate"} =>
        /\ Cardinality(RefreshSteps) <= 1
        /\ \A i \in RefreshSteps :
              ~steps[i].success => (i = Len(steps) /\ pc = "done")

C37_Witness ==
    /\ flow = "validate"
    /\ Returned
    /\ ~ret.success
    /\ RefreshSteps = {2}
    /\ ~steps[2].success
    /\ tableau.signIns = 1

\* C38: in run_full, when the reconcile step reported differences, the
\* corrective-jobs step is the next step, and the cube-refresh step is
\* recorded exactly when the corrective-jobs step succeeded: a failed
\* jobs step ends the run, a successful one is followed by the cube
\* refresh.  With an empty action list, or actions without job
\* references, the jobs step succeeds without executing a job and the
\* cube refresh still runs.
JobsStep == "2.1 Ejecutar Jobs Correctivos"

CuboStep == "2.2 Actualizar Cubo"

ReportedDifferences(i) ==
    /\ steps[i].nombre = "2. Validar Inventario SQL"
    /\ EntraCorrectivos(steps[i])

C38_CubeIffJobsSucceeded ==
    flow = "full" =>
        \A i \in 1..Len(steps) :
            /\ (ReportedDifferences(i) /\ i < Len(steps)) =>
                  steps[i + 1].nombre = JobsStep
            /\ (ReportedDifferences(i) /\ i = Len(steps)) =>
                  (pc = "f21" \/ (pc = "done" /\ lastStep.exc))
            /\ steps[i].nombre = CuboStep =>
                  /\ i > 2
                  /\ steps[i - 1].nombre = JobsStep
                  /\ steps[i - 1].success
                  /\ ReportedDifferences(i - 2)
            /\ (steps[i].nombre = JobsStep /\ steps[i].success) =>
                  IF i < Len(steps)
                  THEN steps[i + 1].nombre = CuboStep
                  ELSE pc = "f22" \/ (pc = "done" /\ lastStep.exc)
            /\ (steps[i].nombre = JobsStep /\ ~steps[i].success) =>
                  (i = Len(steps) /\ pc = "done")
            /\ (steps[i].nombre = JobsStep /\ NumJobs(AccionesDe(steps[i - 1])) = 0) =>
                  /\ steps[i].success
                  /\ \A k \in 1..Len(jobLog) :
                        jobLog[k].job = "BI Inventario Chatarra 5:15 am"

C38_Witness ==
    /\ flow = "full"
    /\ Len(steps) >= 4
    /\ ReportedDifferences(2)
    /\ AccionesDe(steps[2]) = <<[Accion1 |-> "", Accion2 |-> ""]>>
    /\ steps[3].nombre = JobsStep
    /\ steps[3].success
    /\ steps[4].nombre = CuboStep
    /\ Len(jobLog) = 1

\* C39: in every state get_summary reports total_pasos equal to the length
\* of the step list and to pasos_exitosos + pasos_fallidos, its pasos are
\* the steps in step-list order, and its ticket_jira is the orchestrator's
\* current ticket identifier.
C39_SummaryMatchesSteps ==
    LET summary == get_summary(steps, ticket_jira)
    IN /\ summary.total_pasos = Len(steps)
       /\ summary.total_pasos = summary.pasos_exitosos + summary.pasos_fallidos
       /\ summary.pasos_exitosos = Cardinality({i \in 1..Len(steps) : steps[i].success})
       /\ summary.pasos_fallidos = Cardinality({i \in 1..Len(steps) : ~steps[i].success})
       /\ Len(summary.pasos) = Len(steps)
       /\ \A i \in 1..Len(steps) :
             /\ summary.pasos[i].nombre = steps[i].nombre
             /\ summary.pasos[i].success = steps[i].success
             /\ summary.pasos[i].estado = steps[i].mensaje
             /\ summary.pasos[i].detalles = steps[i].detalles
       /\ summary.ticket_jira = ticket_jira

C39_Witness ==
    /\ Returned
    /\ ticket_jira = "DDF-1"
    /\ get_summary(steps, ticket_jira).total_pasos = 5
    /\ get_summary(steps, ticket_jira).pasos_fallidos = 3
    /\ get_summary(steps, ticket_jira).ticket_jira = "DDF-1"
====
